---- MODULE Spec2Model ----
(***************************************************************************)
(* A model of the AI code reviewer: the AI provider chain (AIEngine), the  *)
(* static tool runner (StaticAnalyzer) and the presenter's review pipeline *)
(* (ReviewPresenter).                                                      *)
(*                                                                         *)
(* Texts (provider responses) are sequences of lexical tokens; JSON text   *)
(* is parsed by a recursive-descent parser over those tokens, and Python   *)
(* dicts/lists/numbers/strings are JSON values.  Scores are fixed-point    *)
(* numbers in hundredths (10.0 is 1000).                                   *)
(***************************************************************************)
EXTENDS Integers, Sequences, FiniteSets, TLC

VARIABLES
    providers,      \* AIEngine: which provider clients are configured
    tools_config,   \* StaticAnalyzer.tools_config[tool]['enabled']
    tmp_files,      \* temporary files that exist on disk
    tmp_created,    \* number of temporary files created so far
    ai,             \* the last AIEngine.analyze_code call, as its caller saw it
    sa,             \* the last StaticAnalyzer.analyze_code call, as its caller saw it
    review,         \* the last ReviewPresenter.review_code call, as its caller saw it
    review_history, \* ReviewPresenter.review_history
    next_review,    \* number of review ids generated so far
    tr,             \* the last pair of tool runs compared: an output and the output with one more finding
    batch,          \* the last ReviewPresenter.batch_review call, as its caller saw it
    completed,      \* the ids of the reviews review_code has completed, in completion order
    rd,             \* the last read of the history (get_review, get_dashboard_metrics), as its client saw it
    loop            \* the event loop: the requests in flight and the one that is running

vars == <<providers, tools_config, tmp_files, tmp_created, ai, sa, review, review_history, next_review, tr, batch,
          completed, rd, loop>>

(***************************************************************************)
(* Bounds of the model.                                                    *)
(***************************************************************************)
MaxProse == 3
MaxFindings == 2
MaxTmpFiles == 2
MaxRepeat == 6
MaxReviews == 1

(***************************************************************************)
(* Fixed-point scores: Points(8) is the score 8.0, Half is 0.5.            *)
(***************************************************************************)
Points(n) == n * 100
Half == Points(1) \div 2
Max(a, b) == IF a >= b THEN a ELSE b

(***************************************************************************)
(* Lexical tokens of a text.  k is the lexical class: the four brackets, a *)
(* member key ("score":), a number, a string literal, a prose word, a      *)
(* newline.  Separator commas and blanks belong to the neighbouring token. *)
(***************************************************************************)
Tok(k, s, n) == [k |-> k, s |-> s, n |-> n]
LB == Tok("lbrace", "{", 0)
RB == Tok("rbrace", "}", 0)
LK == Tok("lbrack", "[", 0)
RK == Tok("rbrack", "]", 0)
NL == Tok("nl", "\n", 0)
Key(s) == Tok("key", s, 0)
Num(n) == Tok("num", "", n)
Str(s) == Tok("str", s, 0)
Word(s) == Tok("word", s, 0)

(***************************************************************************)
(* JSON values, which are also the Python values the engine returns: a     *)
(* number, a string, a list of values, a dict as its sequence of           *)
(* <<key, value>> members.                                                 *)
(***************************************************************************)
JNum(n) == [t |-> "num", n |-> n, s |-> "", items |-> <<>>]
JStr(s) == [t |-> "str", n |-> 0, s |-> s, items |-> <<>>]
JArr(items) == [t |-> "arr", n |-> 0, s |-> "", items |-> items]
JObj(members) == [t |-> "obj", n |-> 0, s |-> "", items |-> members]
JSONDecodeError == [t |-> "JSONDecodeError", n |-> 0, s |-> "", items |-> <<>>]

\* dict.get(key, default): the last member with that key wins, as in json.loads
RECURSIVE GetFrom(_, _, _, _)
GetFrom(members, i, key, default) ==
    IF i = 0 THEN default
    ELSE IF members[i][1] = key THEN members[i][2]
    ELSE GetFrom(members, i - 1, key, default)

Get(obj, key, default) == GetFrom(obj.items, Len(obj.items), key, default)

(***************************************************************************)
(* json.loads over tokens: value := num | str | [ value* ] | { (key value)* } *)
(* A parse step returns [ok, val, next].                                   *)
(***************************************************************************)
ParseFail == [ok |-> FALSE, val |-> JSONDecodeError, next |-> 0]

RECURSIVE ParseValue(_, _)
RECURSIVE ParseItems(_, _, _)
RECURSIVE ParseMembers(_, _, _)

ParseValue(toks, i) ==
    IF i > Len(toks) THEN ParseFail
    ELSE CASE toks[i].k = "num" -> [ok |-> TRUE, val |-> JNum(toks[i].n), next |-> i + 1]
           [] toks[i].k = "str" -> [ok |-> TRUE, val |-> JStr(toks[i].s), next |-> i + 1]
           [] toks[i].k = "lbrack" -> ParseItems(toks, i + 1, <<>>)
           [] toks[i].k = "lbrace" -> ParseMembers(toks, i + 1, <<>>)
           [] OTHER -> ParseFail

ParseItems(toks, i, acc) ==
    IF i > Len(toks) THEN ParseFail
    ELSE IF toks[i].k = "rbrack" THEN [ok |-> TRUE, val |-> JArr(acc), next |-> i + 1]
    ELSE LET r == ParseValue(toks, i)
         IN  IF r.ok THEN ParseItems(toks, r.next, Append(acc, r.val)) ELSE ParseFail

ParseMembers(toks, i, acc) ==
    IF i > Len(toks) THEN ParseFail
    ELSE IF toks[i].k = "rbrace" THEN [ok |-> TRUE, val |-> JObj(acc), next |-> i + 1]
    ELSE IF toks[i].k # "key" THEN ParseFail
    ELSE LET r == ParseValue(toks, i + 1)
         IN  IF r.ok THEN ParseMembers(toks, r.next, Append(acc, <<toks[i].s, r.val>>))
             ELSE ParseFail

\* JSON ignores blanks and newlines around tokens
RECURSIVE StripNL(_)
StripNL(toks) ==
    IF toks = <<>> THEN <<>>
    ELSE IF Head(toks).k = "nl" THEN StripNL(Tail(toks))
    ELSE <<Head(toks)>> \o StripNL(Tail(toks))

JsonLoads(content) ==
    LET toks == StripNL(content)
        r == ParseValue(toks, 1)
    IN  IF r.ok /\ r.next = Len(toks) + 1 THEN r.val ELSE JSONDecodeError

Parses(content) == JsonLoads(content).t # "JSONDecodeError"

(***************************************************************************)
(* Substring tests on text.  Lower(s) is str.lower(); KeywordsOf(s) is the *)
(* set of the keywords the code searches for that occur in the lower-cased *)
(* text s.                                                                 *)
(***************************************************************************)
Lower(s) ==
    CASE s = "Performance" -> "performance"
      [] s = "Fibonacci" -> "fibonacci"
      [] OTHER -> s

KeywordsOf(s) ==
    CASE Lower(s) = "recursive" -> {"recursive"}
      [] Lower(s) = "performance" -> {"performance"}
      [] Lower(s) = "performance_issue" -> {"performance"}
      [] Lower(s) = "performance_notes" -> {"performance"}
      [] Lower(s) = "fibonacci" -> {"fibonacci"}
      [] Lower(s) = "calculate_fibonacci" -> {"fibonacci"}
      [] Lower(s) = "input" -> {"input"}
      [] Lower(s) = "security_concerns" -> {"security"}
      [] OTHER -> {}

\* kw in text.lower()
InLower(kw, toks) == \E i \in 1..Len(toks) : kw \in KeywordsOf(toks[i].s)

\* content.split('\n')
RECURSIVE SplitLines(_, _, _)
SplitLines(toks, i, cur) ==
    IF i > Len(toks) THEN <<cur>>
    ELSE IF toks[i].k = "nl" THEN <<cur>> \o SplitLines(toks, i + 1, <<>>)
    ELSE SplitLines(toks, i + 1, Append(cur, toks[i]))

(***************************************************************************)
(* The fixed dicts the engine emits.                                       *)
(***************************************************************************)
PerformanceIssue ==
    JObj(<< <<"type", JStr("performance_issue")>>, <<"severity", JStr("high")>>,
            <<"line", JNum(3)>>,
            <<"message", JStr("Recursive Fibonacci has exponential time complexity O(2^n)")>>,
            <<"suggestion", JStr("Use iterative approach or memoization for better performance")>> >>)

IterativeSuggestion ==
    JObj(<< <<"type", JStr("performance_optimization")>>,
            <<"description", JStr("Replace recursive implementation with iterative approach")>>,
            <<"code", JStr("def calculate_fibonacci(n): ...")>>,
            <<"reason", JStr("Iterative approach has O(n) time complexity vs O(2^n) for recursive")>> >>)

MemoizationSuggestion ==
    JObj(<< <<"type", JStr("memoization")>>,
            <<"description", JStr("Add memoization to recursive function")>>,
            <<"code", JStr("@lru_cache ...")>>,
            <<"reason", JStr("Memoization reduces time complexity to O(n) while keeping recursive structure")>> >>)

EfficiencyNote ==
    JObj(<< <<"area", JStr("algorithm_efficiency")>>,
            <<"issue", JStr("Exponential time complexity")>>,
            <<"suggestion", JStr("Use iterative or memoized approach")>> >>)

TextInputConcern ==
    JObj(<< <<"type", JStr("input_validation")>>, <<"severity", JStr("medium")>>,
            <<"description", JStr("No validation for negative numbers or large inputs")>>,
            <<"mitigation", JStr("Add input validation and limits")>> >>)

FallbackInputConcern ==
    JObj(<< <<"type", JStr("input_validation")>>, <<"severity", JStr("medium")>>,
            <<"description", JStr("No validation for user input")>>,
            <<"mitigation", JStr("Add try-catch block and input validation")>> >>)

InputValidationSuggestion ==
    JObj(<< <<"type", JStr("input_validation")>>,
            <<"description", JStr("Add proper input validation and error handling")>>,
            <<"code", JStr("def main(): ...")>>,
            <<"reason", JStr("Prevents crashes from invalid input and provides user feedback")>> >>)

AnalysisDict(score, issues, suggestions, security_concerns, performance_notes, summary, raw) ==
    JObj(<< <<"score", JNum(score)>>, <<"issues", JArr(issues)>>,
            <<"suggestions", JArr(suggestions)>>,
            <<"security_concerns", JArr(security_concerns)>>,
            <<"performance_notes", JArr(performance_notes)>>,
            <<"readability_score", JNum(7)>>, <<"maintainability_score", JNum(6)>>,
            <<"summary", JStr(summary)>>, <<"raw_response", JStr(raw)>> >>)

(***************************************************************************)
(* AIEngine._parse_text_response                                           *)
(***************************************************************************)
PerformanceKeywords == {"performance", "slow", "inefficient", "complexity", "recursive"}
SecurityKeywords == {"input", "validation", "security", "vulnerability"}

\* re.search(r'\{.*\}', content, re.DOTALL): from the first '{' to the last '}'
Braces(content, k) == {i \in 1..Len(content) : content[i].k = k}
FirstOf(S) == CHOOSE i \in S : \A j \in S : i <= j
LastOf(S) == CHOOSE i \in S : \A j \in S : i >= j

JsonMatch(content) ==
    LET opens == Braces(content, "lbrace")
        closes == Braces(content, "rbrace")
    IN  IF opens # {} /\ closes # {} /\ FirstOf(opens) < LastOf(closes)
        THEN [found |-> TRUE, group |-> SubSeq(content, FirstOf(opens), LastOf(closes))]
        ELSE [found |-> FALSE, group |-> <<>>]

\* the loop over the lines: acc is [issues, suggestions, security_concerns, performance_notes]
RECURSIVE ScanLines(_, _, _, _)
ScanLines(lines, i, content, acc) ==
    IF i > Len(lines) THEN acc
    ELSE LET line == lines[i]
             perf == /\ \E kw \in PerformanceKeywords : InLower(kw, line)
                     /\ InLower("fibonacci", content)
                     /\ InLower("recursive", line)
             sec == \E kw \in SecurityKeywords : InLower(kw, line)
             a1 == IF perf
                   THEN [acc EXCEPT !.issues = Append(@, PerformanceIssue),
                                    !.suggestions = Append(@, IterativeSuggestion),
                                    !.performance_notes = Append(@, EfficiencyNote)]
                   ELSE acc
             a2 == IF sec
                   THEN [a1 EXCEPT !.security_concerns = Append(@, TextInputConcern)]
                   ELSE a1
         IN  IF line = <<>> THEN ScanLines(lines, i + 1, content, acc)
             ELSE ScanLines(lines, i + 1, content, a2)

TextScoreEitherKeyword(content) ==
    IF InLower("performance", content) \/ InLower("recursive", content) THEN 3 ELSE 5

TextScore(content) ==
    IF InLower("performance", content) /\ InLower("recursive", content) THEN 3 ELSE 5

\* the dict built from what the loop found
TextDict(content, found) ==
    AnalysisDict(TextScore(content), found.issues, found.suggestions,
                 found.security_concerns, found.performance_notes,
                 "content", "content")

ExtractFromText(content) ==
    TextDict(content,
             ScanLines(SplitLines(content, 1, <<>>), 1, content,
                       [issues |-> <<>>, suggestions |-> <<>>,
                        security_concerns |-> <<>>, performance_notes |-> <<>>]))

\* the try around json.loads(json_match.group(0)), then the text extraction
ParseMatch(content, m) ==
    IF m.found /\ Parses(m.group)
    THEN [via |-> "fragment", value |-> JsonLoads(m.group)]
    ELSE [via |-> "heuristic", value |-> ExtractFromText(content)]

\* returns [via, value]: the step that produced the value
ParseTextResponse(content) == ParseMatch(content, JsonMatch(content))

(***************************************************************************)
(* AIEngine._get_fallback_suggestions.  The code under review is a         *)
(* sequence of words; CodeHas is a substring test, CodeCount is str.count. *)
(***************************************************************************)
WordHas(w, needle) ==
    \/ w = needle
    \/ needle = "fibonacci" /\ Lower(w) \in {"fibonacci", "calculate_fibonacci"}

CodeHas(code, needle) == \E i \in 1..Len(code) : WordHas(code[i], needle)
CodeHasLower(code, needle) == \E i \in 1..Len(code) : WordHas(Lower(code[i]), needle)
CodeCount(code, needle) == Cardinality({i \in 1..Len(code) : code[i] = needle})

GetFallbackSuggestions(code, language) ==
    LET python == language = "python"
        fib == /\ python
               /\ CodeHasLower(code, "fibonacci") /\ CodeHas(code, "def") /\ CodeHas(code, "return")
               /\ CodeCount(code, "calculate_fibonacci") > 1
        inp == python /\ CodeHas(code, "input(") /\ CodeHas(code, "int(")
        issues == IF fib THEN <<PerformanceIssue>> ELSE <<>>
        suggestions == (IF fib THEN <<IterativeSuggestion, MemoizationSuggestion>> ELSE <<>>)
                       \o (IF inp THEN <<InputValidationSuggestion>> ELSE <<>>)
        security_concerns == IF inp THEN <<FallbackInputConcern>> ELSE <<>>
        performance_notes == IF fib THEN <<EfficiencyNote>> ELSE <<>>
    IN  AnalysisDict(IF issues # <<>> THEN 6 ELSE 8, issues, suggestions,
                     security_concerns, performance_notes,
                     "Code analysis completed with specific suggestions for improvement.",
                     "Fallback analysis")

(***************************************************************************)
(* The provider calls.  A call's outcome is "raises", "timeout" (the       *)
(* client raises its timeout error) or "text" (a response with content).   *)
(* Each returns [raised, calls, via, value].                               *)
(***************************************************************************)
Raised(calls) == [raised |-> TRUE, calls |-> calls, via |-> "none", value |-> JSONDecodeError]
Returned(calls, via, value) == [raised |-> FALSE, calls |-> calls, via |-> via, value |-> value]
ReturnedParsed(calls, r) == Returned(calls, r.via, r.value)

AnalyzeWithOpenAI(outcome, content) ==
    IF outcome # "text" THEN Raised(<<"openai">>)
    ELSE IF Parses(content) THEN Returned(<<"openai">>, "full", JsonLoads(content))
    ELSE ReturnedParsed(<<"openai">>, ParseTextResponse(content))

AnalyzeWithCohere(outcome, content) ==
    IF outcome # "text" THEN Raised(<<"cohere">>)
    ELSE ReturnedParsed(<<"cohere">>, ParseTextResponse(content))

AnalyzeWithAnthropic(outcome, content) ==
    IF outcome # "text" THEN Raised(<<"anthropic">>)
    ELSE ReturnedParsed(<<"anthropic">>, ParseTextResponse(content))

\* the try block of analyze_code
TryProviders(clients, outcome, content) ==
    IF clients.openai THEN AnalyzeWithOpenAI(outcome, content)
    ELSE IF clients.cohere THEN AnalyzeWithCohere(outcome, content)
    ELSE IF clients.anthropic THEN AnalyzeWithAnthropic(outcome, content)
    ELSE Raised(<<>>)

\* the except clause of analyze_code: any exception of the try block is
\* answered with the fallback suggestions
ExceptFallback(t, code, language) ==
    IF t.raised
    THEN Returned(t.calls, "fallback", GetFallbackSuggestions(code, language))
    ELSE t

\* analyze_code without its except clause
AnalyzeCodeUncaught(clients, code, language, outcome, content) ==
    TryProviders(clients, outcome, content)

\* AIEngine.analyze_code
AnalyzeCode(clients, code, language, outcome, content) ==
    ExceptFallback(TryProviders(clients, outcome, content), code, language)

(***************************************************************************)
(* The pydantic models (review_model.py) and the presenter's conversion of *)
(* the engine's dict into them.  A conversion returns [ok, ...]; ok is     *)
(* FALSE where the Python raises (AttributeError on a non-dict, pydantic's *)
(* ValidationError on a value outside an enum or a range).                 *)
(***************************************************************************)
IssueType ==
    {"syntax_error", "style_violation", "logic_error", "security_vulnerability",
     "performance_issue", "maintainability_issue", "documentation_issue"}
SeverityLevel == {"low", "medium", "high", "critical"}

\* CodeIssue; line is None (<<>>) or an int (<<n>>)
CodeIssue(type, severity, line, message, tool) ==
    [type |-> type, severity |-> severity, line |-> line, message |-> message, tool |-> tool]

IsEnum(v, members) == v.t = "str" /\ v.s \in members
IsScore(v) == v.t = "num" /\ 0 <= v.n /\ v.n <= 10
IsOptionalInt(v) == v.t \in {"num", "None"}
None == [t |-> "None", n |-> 0, s |-> "", items |-> <<>>]
OptionalLine(v) == IF v.t = "num" THEN <<v.n>> ELSE <<>>

\* what "for x in value" iterates over; ok is FALSE where value is not iterable
Iterate(v) ==
    CASE v.t = "arr" -> [ok |-> TRUE, items |-> v.items]
      [] v.t = "obj" -> [ok |-> TRUE, items |-> [i \in 1..Len(v.items) |-> JStr(v.items[i][1])]]
      [] v.t = "str" -> [ok |-> TRUE, items |-> IF v.s = "" THEN <<>> ELSE <<JStr("char")>>]
      [] OTHER -> [ok |-> FALSE, items |-> <<>>]

\* ReviewPresenter._convert_ai_issue
ConvertAIIssueOk(issue_data) ==
    /\ issue_data.t = "obj"
    /\ IsEnum(Get(issue_data, "type", JStr("style_violation")), IssueType)
    /\ IsEnum(Get(issue_data, "severity", JStr("medium")), SeverityLevel)
    /\ IsOptionalInt(Get(issue_data, "line", None))
    /\ Get(issue_data, "message", JStr("")).t = "str"

ConvertAIIssue(issue_data) ==
    CodeIssue(Get(issue_data, "type", JStr("style_violation")).s,
              Get(issue_data, "severity", JStr("medium")).s,
              OptionalLine(Get(issue_data, "line", None)),
              <<Get(issue_data, "message", JStr("")).s>>,
              "ai_engine")

\* ReviewPresenter._convert_ai_suggestion
ConvertAISuggestionOk(suggestion_data) ==
    /\ suggestion_data.t = "obj"
    /\ Get(suggestion_data, "type", JStr("improvement")).t = "str"
    /\ Get(suggestion_data, "description", JStr("")).t = "str"
    /\ Get(suggestion_data, "reason", JStr("")).t = "str"

ConvertAISuggestion(suggestion_data) ==
    [type |-> Get(suggestion_data, "type", JStr("improvement")).s,
     description |-> Get(suggestion_data, "description", JStr("")).s]

\* ReviewPresenter._convert_security_concern
ConvertSecurityConcernOk(concern_data) ==
    /\ concern_data.t = "obj"
    /\ Get(concern_data, "type", JStr("vulnerability")).t = "str"
    /\ IsEnum(Get(concern_data, "severity", JStr("medium")), SeverityLevel)

ConvertSecurityConcern(concern_data) ==
    [type |-> Get(concern_data, "type", JStr("vulnerability")).s,
     severity |-> Get(concern_data, "severity", JStr("medium")).s]

\* ReviewPresenter._convert_performance_note
ConvertPerformanceNoteOk(note_data) ==
    /\ note_data.t = "obj"
    /\ Get(note_data, "area", JStr("general")).t = "str"

ConvertPerformanceNote(note_data) ==
    [area |-> Get(note_data, "area", JStr("general")).s]

\* a list comprehension [convert(x) for x in ai_data.get(key, [])] succeeds
AllItems(it, Ok(_)) == it.ok /\ \A i \in 1..Len(it.items) : Ok(it.items[i])

\* ReviewPresenter._convert_ai_analysis: whether it returns (TRUE) or raises
ConvertAIAnalysisOk(ai_data) ==
    /\ ai_data.t = "obj"
    /\ IsScore(Get(ai_data, "score", JNum(5)))
    /\ AllItems(Iterate(Get(ai_data, "issues", JArr(<<>>))), ConvertAIIssueOk)
    /\ AllItems(Iterate(Get(ai_data, "suggestions", JArr(<<>>))), ConvertAISuggestionOk)
    /\ AllItems(Iterate(Get(ai_data, "security_concerns", JArr(<<>>))), ConvertSecurityConcernOk)
    /\ AllItems(Iterate(Get(ai_data, "performance_notes", JArr(<<>>))), ConvertPerformanceNoteOk)
    /\ IsScore(Get(ai_data, "readability_score", JNum(5)))
    /\ IsScore(Get(ai_data, "maintainability_score", JNum(5)))
    /\ Get(ai_data, "summary", JStr("")).t = "str"

ConvertList(items, Convert(_)) == [i \in 1..Len(items) |-> Convert(items[i])]

\* the AIAnalysisResult it returns
ConvertAIAnalysis(ai_data) ==
    [score |-> Points(Get(ai_data, "score", JNum(5)).n),
     issues |-> ConvertList(Get(ai_data, "issues", JArr(<<>>)).items, ConvertAIIssue),
     suggestions |-> ConvertList(Get(ai_data, "suggestions", JArr(<<>>)).items, ConvertAISuggestion),
     security_concerns |->
         ConvertList(Get(ai_data, "security_concerns", JArr(<<>>)).items, ConvertSecurityConcern),
     performance_notes |->
         ConvertList(Get(ai_data, "performance_notes", JArr(<<>>)).items, ConvertPerformanceNote),
     readability_score |-> Points(Get(ai_data, "readability_score", JNum(5)).n),
     maintainability_score |-> Points(Get(ai_data, "maintainability_score", JNum(5)).n)]

(***************************************************************************)
(* StaticAnalyzer.  A tool run's outcome is [run, stdout]: run is          *)
(* "spawn_error" (subprocess.run raises, e.g. the tool is not installed),  *)
(* "timeout" (subprocess.TimeoutExpired) or "completed"; stdout is         *)
(* [fmt, toks, lines]: empty, JSON text (tokens), or plain text, a         *)
(* sequence of lines, each the sequence of its ':'-separated fields.       *)
(***************************************************************************)
EmptyStdout == [fmt |-> "empty", toks |-> <<>>, lines |-> <<>>]
JsonStdout(toks) == [fmt |-> "json", toks |-> toks, lines |-> <<>>]
TextStdout(lines) == [fmt |-> "text", toks |-> <<>>, lines |-> lines]

\* int(field): defined on the fields that are integers
IsIntText(f) == f \in {"3", " 7 "}
IntOf(f) == IF f = "3" THEN 3 ELSE 7

\* json.loads(result.stdout); a text that is a lone integer is JSON too
LoadsStdout(stdout) ==
    IF stdout.fmt = "json" THEN JsonLoads(stdout.toks)
    ELSE IF Len(stdout.lines) = 1 /\ Len(stdout.lines[1]) = 1 /\ IsIntText(stdout.lines[1][1])
    THEN JNum(IntOf(stdout.lines[1][1]))
    ELSE JSONDecodeError

\* StaticAnalysisResult(tool, issues, score, summary); the summary is its
\* text and the number formatted into it
StaticAnalysisResult(tool, issues, score, summary) ==
    [tool |-> tool, issues |-> issues, score |-> score, summary |-> summary]
Summary(text, n) == [text |-> text, n |-> n]

\* raw values usable as dict keys in mapping.get(raw, default)
Hashable(v) == v.t \in {"str", "num", "None"}
RawStr(v) == IF v.t = "str" THEN v.s ELSE "(not a string)"

\* StaticAnalyzer._map_pylint_type
MapPylintType(pylint_type) ==
    CASE pylint_type = "error" -> "syntax_error"
      [] pylint_type = "fatal" -> "syntax_error"
      [] pylint_type = "warning" -> "style_violation"
      [] pylint_type = "refactor" -> "maintainability_issue"
      [] pylint_type = "convention" -> "style_violation"
      [] OTHER -> "style_violation"

\* StaticAnalyzer._map_pylint_severity
MapPylintSeverity(pylint_type) ==
    CASE pylint_type = "error" -> "high"
      [] pylint_type = "fatal" -> "critical"
      [] pylint_type = "warning" -> "medium"
      [] pylint_type = "refactor" -> "low"
      [] pylint_type = "convention" -> "low"
      [] OTHER -> "medium"

\* StaticAnalyzer._map_eslint_type, _map_eslint_severity (severity is a JSON value)
MapEslintType(severity) ==
    IF severity.t = "num" /\ severity.n = 2 THEN "syntax_error" ELSE "style_violation"
MapEslintSeverity(severity) ==
    IF severity.t = "num" /\ severity.n = 2 THEN "high" ELSE "medium"

\* StaticAnalyzer._map_bandit_severity
MapBanditSeverity(severity) ==
    CASE severity = "HIGH" -> "critical"
      [] severity = "MEDIUM" -> "high"
      [] severity = "LOW" -> "medium"
      [] OTHER -> "medium"

\* the score deductions in the loops of _run_pylint, _run_eslint, _run_bandit
PylintDeduction(type) ==
    CASE type \in {"error", "fatal"} -> Points(2)
      [] type = "warning" -> Points(1)
      [] type = "refactor" -> Half
      [] OTHER -> 0

EslintDeduction(severity) ==
    CASE severity.t = "num" /\ severity.n = 2 -> Points(2)
      [] severity.t = "num" /\ severity.n = 1 -> Points(1)
      [] OTHER -> 0

BanditDeduction(severity) ==
    CASE severity = "HIGH" -> Points(3)
      [] severity = "MEDIUM" -> Points(2)
      [] severity = "LOW" -> Points(1)
      [] OTHER -> 0

\* CodeIssue(...) validates: line and column Optional[int], message a str
IssueFieldsOk(line, message) == IsOptionalInt(line) /\ message.t = "str"

\* the loops over the parsed JSON: acc is [ok, issues, score]; ok is FALSE
\* once an iteration raises
LoopStart == [ok |-> TRUE, issues |-> <<>>, score |-> Points(10)]
LoopRaise == [ok |-> FALSE, issues |-> <<>>, score |-> Points(10)]
LoopAdd(acc, issue, deduction) ==
    [ok |-> TRUE, issues |-> Append(acc.issues, issue), score |-> acc.score - deduction]

PylintItemOk(item) ==
    /\ item.t = "obj"
    /\ Hashable(Get(item, "type", JStr("")))
    /\ IssueFieldsOk(Get(item, "line", None), Get(item, "message", JStr("")))

PylintItem(acc, type, line, message) ==
    LoopAdd(acc, CodeIssue(MapPylintType(type), MapPylintSeverity(type),
                           OptionalLine(line), <<message.s>>, "pylint"),
            PylintDeduction(type))

RECURSIVE PylintLoop(_, _, _)
PylintLoop(items, i, acc) ==
    IF i > Len(items) THEN acc
    ELSE IF ~PylintItemOk(items[i]) THEN LoopRaise
    ELSE PylintLoop(items, i + 1,
                    PylintItem(acc, RawStr(Get(items[i], "type", JStr(""))),
                               Get(items[i], "line", None),
                               Get(items[i], "message", JStr(""))))

EslintMessageOk(message) ==
    /\ message.t = "obj"
    /\ IssueFieldsOk(Get(message, "line", None), Get(message, "message", JStr("")))

EslintMessage(acc, severity, scored, line, message) ==
    LoopAdd(acc, CodeIssue(MapEslintType(severity), MapEslintSeverity(severity),
                           OptionalLine(line), <<message.s>>, "eslint"),
            EslintDeduction(scored))

RECURSIVE EslintMessages(_, _, _)
EslintMessages(messages, i, acc) ==
    IF i > Len(messages) THEN acc
    ELSE IF ~EslintMessageOk(messages[i]) THEN LoopRaise
    ELSE EslintMessages(messages, i + 1,
                        EslintMessage(acc, Get(messages[i], "severity", JNum(1)),
                                      Get(messages[i], "severity", None),
                                      Get(messages[i], "line", None),
                                      Get(messages[i], "message", JStr(""))))

EslintFile(file_data, it, acc) ==
    IF ~it.ok THEN LoopRaise ELSE EslintMessages(it.items, 1, acc)

RECURSIVE EslintLoop(_, _, _)
EslintLoop(files, i, acc) ==
    IF i > Len(files) \/ ~acc.ok THEN acc
    ELSE IF files[i].t # "obj" THEN LoopRaise
    ELSE EslintLoop(files, i + 1,
                    EslintFile(files[i], Iterate(Get(files[i], "messages", JArr(<<>>))), acc))

BanditItemOk(item) ==
    /\ item.t = "obj"
    /\ Hashable(Get(item, "issue_severity", JStr("MEDIUM")))
    /\ IssueFieldsOk(Get(item, "line_number", None), Get(item, "issue_text", JStr("")))

BanditItem(acc, severity, line, message) ==
    LoopAdd(acc, CodeIssue("security_vulnerability", MapBanditSeverity(severity),
                           OptionalLine(line), <<message.s>>, "bandit"),
            BanditDeduction(severity))

RECURSIVE BanditLoop(_, _, _)
BanditLoop(items, i, acc) ==
    IF i > Len(items) THEN acc
    ELSE IF ~BanditItemOk(items[i]) THEN LoopRaise
    ELSE BanditLoop(items, i + 1,
                    BanditItem(acc, RawStr(Get(items[i], "issue_severity", JStr("MEDIUM"))),
                               Get(items[i], "line_number", None),
                               Get(items[i], "issue_text", JStr(""))))

(***************************************************************************)
(* The text fallbacks.  ':' in line is "the line has two fields or more";  *)
(* line.split(':', 3) is the first three fields and the rest.              *)
(***************************************************************************)
FieldKeywords(f) ==
    CASE f \in {"error", "Error"} -> {"error"}
      [] f = "warning" -> {"warning"}
      [] f = "refactor" -> {"refactor"}
      [] OTHER -> {}

LineHasKeyword(line, kws) == \E i \in 1..Len(line) : FieldKeywords(line[i]) \cap kws # {}

\* the lines that yield an issue
PylintTextMatch(line) ==
    /\ Len(line) >= 2
    /\ LineHasKeyword(line, {"error", "warning", "refactor"})
    /\ Len(line) >= 4
    /\ IsIntText(line[2])

EslintTextMatch(line) ==
    /\ Len(line) >= 2
    /\ LineHasKeyword(line, {"error", "warning"})
    /\ Len(line) >= 4
    /\ IsIntText(line[2])

BanditTextMatch(line) == \E i \in 1..(Len(line) - 1) : line[i] = ">> Issue"

PylintTextIssue(line) ==
    CodeIssue(MapPylintType(line[3]), MapPylintSeverity(line[3]), <<IntOf(line[2])>>,
              SubSeq(line, 4, Len(line)), "pylint")

EslintTextIssue(line) ==
    CodeIssue("style_violation", "medium", <<IntOf(line[2])>>, SubSeq(line, 4, Len(line)), "eslint")

BanditTextIssue(line) ==
    CodeIssue("security_vulnerability", "medium", <<>>,
              SubSeq(line, 1 + FirstOf({i \in 1..Len(line) : line[i] = ">> Issue"}), Len(line)),
              "bandit")

\* StaticAnalyzer._parse_pylint_text_output, _parse_eslint_text_output, _parse_bandit_text_output
ParsePylintTextOutput(stdout) == ConvertList(SelectSeq(stdout.lines, PylintTextMatch), PylintTextIssue)
ParseEslintTextOutput(stdout) == ConvertList(SelectSeq(stdout.lines, EslintTextMatch), EslintTextIssue)
ParseBanditTextOutput(stdout) == ConvertList(SelectSeq(stdout.lines, BanditTextMatch), BanditTextIssue)

(***************************************************************************)
(* StaticAnalyzer._run_pylint, _run_eslint, _run_bandit                    *)
(***************************************************************************)
TimedOut(tool, text) == StaticAnalysisResult(tool, <<>>, Points(5), Summary(text, 0))
Failed(tool, text) == StaticAnalysisResult(tool, <<>>, Points(5), Summary(text, 0))
FoundUnclamped(tool, issues, score, text) ==
    StaticAnalysisResult(tool, issues, score, Summary(text, Len(issues)))

Found(tool, issues, score, text) ==
    StaticAnalysisResult(tool, issues, Max(0, score), Summary(text, Len(issues)))

\* the end of the try block: the return, or the except Exception clause
PylintFinish(acc) ==
    IF acc.ok THEN Found("pylint", acc.issues, acc.score, "Pylint found N issues")
    ELSE Failed("pylint", "Pylint analysis failed: error")

PylintData(it) == IF it.ok THEN PylintLoop(it.items, 1, LoopStart) ELSE LoopRaise

PylintCompleted(stdout, data) ==
    IF stdout.fmt = "empty" THEN PylintFinish(LoopStart)
    ELSE IF data.t = "JSONDecodeError"
    THEN PylintFinish([LoopStart EXCEPT !.issues = ParsePylintTextOutput(stdout)])
    ELSE PylintFinish(PylintData(Iterate(data)))

RunPylint(outcome) ==
    CASE outcome.run = "timeout" -> TimedOut("pylint", "Pylint analysis timed out")
      [] outcome.run = "spawn_error" -> Failed("pylint", "Pylint analysis failed: error")
      [] OTHER -> PylintCompleted(outcome.stdout, LoadsStdout(outcome.stdout))

EslintFinish(acc) ==
    IF acc.ok THEN Found("eslint", acc.issues, acc.score, "ESLint found N issues")
    ELSE Failed("eslint", "ESLint analysis failed: error")

EslintData(it) == IF it.ok THEN EslintLoop(it.items, 1, LoopStart) ELSE LoopRaise

EslintCompleted(stdout, data) ==
    IF stdout.fmt = "empty" THEN EslintFinish(LoopStart)
    ELSE IF data.t = "JSONDecodeError"
    THEN EslintFinish([LoopStart EXCEPT !.issues = ParseEslintTextOutput(stdout)])
    ELSE EslintFinish(EslintData(Iterate(data)))

RunEslint(outcome) ==
    CASE outcome.run = "timeout" -> TimedOut("eslint", "ESLint analysis timed out")
      [] outcome.run = "spawn_error" -> Failed("eslint", "ESLint analysis failed: error")
      [] OTHER -> EslintCompleted(outcome.stdout, LoadsStdout(outcome.stdout))

BanditFinish(acc) ==
    IF acc.ok THEN Found("bandit", acc.issues, acc.score, "Bandit found N security issues")
    ELSE Failed("bandit", "Bandit analysis failed: error")

BanditResults(it) == IF it.ok THEN BanditLoop(it.items, 1, LoopStart) ELSE LoopRaise

\* bandit_data.get('results', []) needs a dict
BanditData(data) ==
    IF data.t = "obj" THEN BanditResults(Iterate(Get(data, "results", JArr(<<>>)))) ELSE LoopRaise

BanditCompleted(stdout, data) ==
    IF stdout.fmt = "empty" THEN BanditFinish(LoopStart)
    ELSE IF data.t = "JSONDecodeError"
    THEN BanditFinish([LoopStart EXCEPT !.issues = ParseBanditTextOutput(stdout)])
    ELSE BanditFinish(BanditData(data))

RunBandit(outcome) ==
    CASE outcome.run = "timeout" -> TimedOut("bandit", "Bandit analysis timed out")
      [] outcome.run = "spawn_error" -> Failed("bandit", "Bandit analysis failed: error")
      [] OTHER -> BanditCompleted(outcome.stdout, LoadsStdout(outcome.stdout))

RunTool(tool, outcome) ==
    CASE tool = "pylint" -> RunPylint(outcome)
      [] tool = "eslint" -> RunEslint(outcome)
      [] OTHER -> RunBandit(outcome)

(***************************************************************************)
(* StaticAnalyzer.analyze_code.  env is what the environment does to this  *)
(* call: create and write (the NamedTemporaryFile and temp_file.write) and *)
(* unlink (os.unlink) are "ok" or "error" (an OSError, a                   *)
(* UnicodeEncodeError of the write); unlink is also "missing", the         *)
(* FileNotFoundError of a file something else has removed; outcome[tool]   *)
(* is the tool run's outcome.                                              *)
(***************************************************************************)
ProgrammingLanguage ==
    {"python", "javascript", "typescript", "java", "cpp", "c", "go", "rust", "php", "ruby"}
Tools == {"pylint", "eslint", "bandit"}

IfEnabled(config, tool) == IF config[tool] THEN <<tool>> ELSE <<>>

ToolsForIgnoringLanguage(config, language) ==
    IF language = "python"
    THEN IfEnabled(config, "pylint") \o IfEnabled(config, "bandit")
    ELSE IfEnabled(config, "eslint")

\* the tools analyze_code runs, in order
ToolsFor(config, language) ==
    IF language = "python"
    THEN IfEnabled(config, "pylint") \o IfEnabled(config, "bandit")
    ELSE IF language \in {"javascript", "typescript"}
    THEN IfEnabled(config, "eslint")
    ELSE <<>>

RunTools(ran, env) == [i \in 1..Len(ran) |-> RunTool(ran[i], env.outcome[ran[i]])]

\* returns [raised, ran, results, created, left]: whether it raised, the
\* tools it ran, the list it returned, whether it created a temporary file
\* and whether that file is still there when the call ends
StaticAnalyzeCode(config, language, env) ==
    IF env.create = "error"
    THEN [raised |-> TRUE, ran |-> <<>>, results |-> <<>>, created |-> FALSE, left |-> FALSE]
    ELSE IF env.write = "error"
    THEN [raised |-> TRUE, ran |-> <<>>, results |-> <<>>, created |-> TRUE, left |-> TRUE]
    ELSE IF env.unlink # "ok"
    THEN [raised |-> TRUE, ran |-> ToolsFor(config, language), results |-> <<>>,
          created |-> TRUE, left |-> env.unlink = "error"]
    ELSE [raised |-> FALSE, ran |-> ToolsFor(config, language),
          results |-> RunTools(ToolsFor(config, language), env),
          created |-> TRUE, left |-> FALSE]

(***************************************************************************)
(* ReviewPresenter.review_code and what it calls in code_utils.  An        *)
(* Optional value is <<>> (None) or <<v>>.                                 *)
(***************************************************************************)
\* len() of the code: a word is one character wide, but for the literal
\* that stands for a text of eleven megabytes
WordSize(w) == IF w = "(11 MB literal)" THEN 11 * 1024 * 1024 ELSE 1
RECURSIVE CodeSize(_, _)
CodeSize(code, i) == IF i > Len(code) THEN 0 ELSE WordSize(code[i]) + CodeSize(code, i + 1)
MaxFileSize == 10 * 1024 * 1024

\* validate_focus_areas of review_model.py: a function of the module, which
\* no model class holds, so that no request is checked by it
valid_areas ==
    {"security", "performance", "readability", "maintainability", "style", "documentation"}
ValidateFocusAreas(v) == \A i \in 1..Len(v) : v[i] \in valid_areas

\* a validation that lets every request through
ValidateNothing(request) == TRUE

\* CodeReviewRequest: code is a str of min_length 1; FastAPI answers 422 to
\* a body that does not fit, and the route handler is not called
CodeReviewRequestOk(request) == Len(request.code) >= 1

\* ReviewPresenter._validate_review_request: TRUE where it returns, FALSE
\* where it raises ValueError
ValidateReviewRequest(request) ==
    /\ \E i \in 1..Len(request.code) : request.code[i] # " "
    /\ CodeSize(request.code, 1) <= MaxFileSize

\* CodeUtils.sanitize_code
Sensitive(w) == w \in {"password='pw'", "api_key='k'"}
SanitizeCode(code) ==
    [i \in 1..Len(code) |-> IF Sensitive(code[i]) THEN "***REDACTED***" ELSE code[i]]

\* round(x, 2) of the score num / den hundredths, ties to even
Round2(num, den) ==
    IF 2 * (num % den) > den \/ (2 * (num % den) = den /\ (num \div den) % 2 = 1)
    THEN (num \div den) + 1
    ELSE num \div den

RECURSIVE Sum(_, _)
Sum(scores, i) == IF i > Len(scores) THEN 0 ELSE scores[i] + Sum(scores, i + 1)

\* CodeUtils.calculate_overall_score, scores in hundredths
CalculateOverallScore(static_scores, ai_score) ==
    IF static_scores = <<>>
    THEN (IF ai_score = 0 THEN Points(5) ELSE Round2(60 * Points(5) + 40 * ai_score, 100))
    ELSE Round2(60 * Sum(static_scores, 1) + 40 * ai_score * Len(static_scores),
                100 * Len(static_scores))

\* ReviewPresenter._combine_issues
RECURSIVE StaticIssues(_, _)
StaticIssues(static_results, i) ==
    IF i > Len(static_results) THEN <<>>
    ELSE static_results[i].issues \o StaticIssues(static_results, i + 1)

CombineIssuesAIFirst(static_results, ai_result) ==
    (IF ai_result = <<>> THEN <<>> ELSE ai_result[1].issues) \o StaticIssues(static_results, 1)

CombineIssues(static_results, ai_result) ==
    StaticIssues(static_results, 1) \o (IF ai_result = <<>> THEN <<>> ELSE ai_result[1].issues)

\* ReviewPresenter._extract_suggestions, _extract_security_concerns
ExtractSuggestions(ai_result) == IF ai_result = <<>> THEN <<>> ELSE ai_result[1].suggestions
ExtractSecurityConcerns(ai_result) ==
    IF ai_result = <<>> THEN <<>> ELSE ai_result[1].security_concerns

CountIssuesWithoutHigh(issues) ==
    [severity \in SeverityLevel |->
        IF severity = "high" THEN 0
        ELSE Cardinality({i \in 1..Len(issues) : issues[i].severity = severity})]

\* ReviewPresenter._count_issues_by_severity
CountIssuesBySeverity(issues) ==
    [severity \in SeverityLevel |->
        Cardinality({i \in 1..Len(issues) : issues[i].severity = severity})]

CountType(issues, type) == Cardinality({i \in 1..Len(issues) : issues[i].type = type})

\* CodeUtils.generate_summary: the parts of the summary text
QualityPart(score) ==
    CASE score >= Points(8) -> "Code quality is excellent"
      [] score >= Points(6) -> "Code quality is good with minor improvements needed"
      [] score >= Points(4) -> "Code quality needs improvement"
      [] OTHER -> "Code quality requires significant attention"

IssuesPart(total, counts) ==
    IF total = 0 THEN <<>>
    ELSE <<[text |-> "Found N issues", n |-> total]>>
         \o (IF counts["critical"] > 0
             THEN <<[text |-> "including N critical issues", n |-> counts["critical"]]>>
             ELSE IF counts["high"] > 0
             THEN <<[text |-> "including N high-priority issues", n |-> counts["high"]]>>
             ELSE <<>>)

GenerateSummary(issues, suggestions, score) ==
    <<[text |-> QualityPart(score), n |-> 0]>>
        \o IssuesPart(Len(issues), CountIssuesBySeverity(issues))
        \o (IF suggestions # <<>>
            THEN <<[text |-> "Generated N improvement suggestions", n |-> Len(suggestions)]>>
            ELSE <<>>)

\* ReviewPresenter._generate_recommendations
FocusRecommendation(area) ==
    CASE area = "performance" -> <<[text |-> "Consider performance optimizations", n |-> 0]>>
      [] area = "readability" ->
            <<[text |-> "Improve code readability and documentation", n |-> 0]>>
      [] area = "security" -> <<[text |-> "Conduct thorough security review", n |-> 0]>>
      [] OTHER -> <<>>

RECURSIVE FocusRecommendations(_, _)
FocusRecommendations(focus_areas, i) ==
    IF i > Len(focus_areas) THEN <<>>
    ELSE FocusRecommendation(focus_areas[i]) \o FocusRecommendations(focus_areas, i + 1)

KeepAll(recommendations) == recommendations

FirstFive(recommendations) == SubSeq(recommendations, 1, IF Len(recommendations) < 5 THEN Len(recommendations) ELSE 5)

GenerateRecommendations(issues, suggestions, focus_areas) ==
    FirstFive(
        (IF CountIssuesBySeverity(issues)["critical"] > 0
         THEN <<[text |-> "Address N critical issues immediately",
                 n |-> CountIssuesBySeverity(issues)["critical"]]>>
         ELSE <<>>)
        \o (IF CountType(issues, "security_vulnerability") > 0
            THEN <<[text |-> "Review and fix N security vulnerabilities",
                    n |-> CountType(issues, "security_vulnerability")]>>
            ELSE <<>>)
        \o FocusRecommendations(focus_areas, 1)
        \o (IF suggestions # <<>>
            THEN <<[text |-> "Implement N improvement suggestions", n |-> Len(suggestions)]>>
            ELSE <<>>))

(***************************************************************************)
(* The inputs of the provider chain: the code under review, the provider   *)
(* call's outcome, the response text.                                      *)
(***************************************************************************)
RecursiveFib == <<"def", "calculate_fibonacci", "return", "calculate_fibonacci", "calculate_fibonacci">>
IterativeFib == <<"def", "calculate_fibonacci", "return">>
InputMain == <<"def", "input(", "int(", "return">>
PlainCode == <<"x">>

AIRequests ==
    {[code |-> RecursiveFib, language |-> "python"],
     [code |-> RecursiveFib, language |-> "javascript"],
     [code |-> RecursiveFib \o InputMain, language |-> "python"],
     [code |-> IterativeFib, language |-> "python"],
     [code |-> InputMain, language |-> "python"],
     [code |-> PlainCode, language |-> "python"]}

ProseTokens ==
    {Word("recursive"), Word("Performance"), Word("fibonacci"), Word("input"), Word("code"), NL}

Proses == UNION {[1..m -> ProseTokens] : m \in 0..MaxProse}

IssueBody(type, severity) ==
    <<LB, Key("score"), Num(8), Key("issues"), LK,
      LB, Key("type"), Str(type), Key("severity"), Str(severity), RB, RK, RB>>

Bodies ==
    {<<LB, Key("score"), Num(8), RB>>,
     <<LB, Key("score"), Num(11), RB>>,
     <<LB, Key("score"), Num(-1), RB>>,
     <<LB, Key("score"), Str("high"), RB>>,
     <<LB, RB>>,
     IssueBody("performance_issue", "high"),
     IssueBody("bogus", "high"),
     IssueBody("performance_issue", "urgent"),
     <<LB, Key("issues"), Num(8), RB>>,
     <<LK, LB, Key("score"), Num(8), RB, RK>>,
     <<LK, LB, Key("score"), Num(8), RB, LB, Key("score"), Num(8), RB, RK>>,
     <<LK, RK>>,
     <<Num(8)>>,
     <<Str("performance_issue")>>,
     <<LB, Key("score"), Num(8)>>,
     <<LB, Word("recursive"), RB>>,
     <<RB, Word("recursive"), LB>>}

Wrapped ==
    {p \o b \o q : p \in {<<>>, <<Word("recursive")>>, <<Word("fibonacci"), NL>>},
                   b \in Bodies,
                   q \in {<<>>, <<Word("Performance")>>}}

Responses == Proses \cup Wrapped

Providers == <<"openai", "cohere", "anthropic">>
ClientConfigs == [openai : BOOLEAN, cohere : BOOLEAN, anthropic : BOOLEAN]
Configured(clients) == clients.openai \/ clients.cohere \/ clients.anthropic
ProviderOutcomes == {"raises", "timeout", "text"}

(***************************************************************************)
(* The inputs of the tool runner: what a tool's run does.  A tool run      *)
(* raises at spawn, times out, or completes with a stdout.                 *)
(***************************************************************************)
ToolOutcome(run, stdout) == [run |-> run, stdout |-> stdout]
NotRun == ToolOutcome("not_run", EmptyStdout)

RECURSIVE Flatten(_, _)
Flatten(items, i) == IF i > Len(items) THEN <<>> ELSE items[i] \o Flatten(items, i + 1)
Array(items) == <<LK>> \o Flatten(items, 1) \o <<RK>>

\* the lists of findings: every list of at most MaxFindings, and the
\* lists of one finding repeated at most MaxRepeat times
Findings(Items) ==
    UNION {[1..m -> Items] : m \in 0..MaxFindings}
        \cup {[i \in 1..k |-> item] : item \in Items, k \in (MaxFindings + 1)..MaxRepeat}

PylintMessage(type) ==
    <<LB, Key("type"), Str(type), Key("line"), Num(3), Key("message"), Str("msg"), RB>>
PylintItems ==
    {PylintMessage(type) :
        type \in {"error", "fatal", "warning", "refactor", "convention", "info"}}
        \cup {<<LB, Key("line"), Num(3), Key("message"), Str("msg"), RB>>,
              <<LB, Key("type"), Str("error"), Key("line"), Str("x"), RB>>,
              <<Num(8)>>}

EslintMessageToks(severity) ==
    <<LB, Key("severity"), severity, Key("line"), Num(3), Key("message"), Str("msg"), RB>>
EslintFileToks(messages) == <<LB, Key("messages")>> \o Array(messages) \o <<RB>>
EslintItems ==
    {EslintMessageToks(Num(2)), EslintMessageToks(Num(1)), EslintMessageToks(Num(0)),
     EslintMessageToks(Str("error")),
     <<LB, Key("line"), Num(3), Key("message"), Str("msg"), RB>>,
     <<LB, Key("severity"), Num(2), Key("message"), Num(8), RB>>}

BanditIssueToks(severity) ==
    <<LB, Key("issue_severity"), Str(severity), Key("line_number"), Num(3),
      Key("issue_text"), Str("msg"), RB>>
BanditItems ==
    {BanditIssueToks(severity) : severity \in {"HIGH", "MEDIUM", "LOW", "UNDEFINED"}}
        \cup {<<LB, Key("issue_text"), Str("msg"), RB>>,
              <<LB, Key("issue_severity"), LK, RK, RB>>}

TextLines ==
    {<<"f.py", "3", "error", "msg">>,
     <<"f.py", "3", "warning", "msg">>,
     <<"f.py", "3", "refactor", "msg">>,
     <<"f.py", "3", "fatal", "msg">>,
     <<"f.py", "x", "error", "msg">>,
     <<"f.py", "3", "Error">>,
     <<">> Issue", "msg">>,
     <<"3">>}
Texts == UNION {[1..m -> TextLines] : m \in 1..MaxFindings}

JsonStdouts(tool) ==
    CASE tool = "pylint" ->
            {Array(f) : f \in Findings(PylintItems)} \cup {<<LB, RB>>, <<Num(8)>>, <<LK, LB>>}
      [] tool = "eslint" ->
            {Array(<<EslintFileToks(f)>>) : f \in Findings(EslintItems)}
                \cup {Array(<<EslintFileToks(<<EslintMessageToks(Num(2))>>),
                              EslintFileToks(<<EslintMessageToks(Num(1))>>)>>),
                      Array(<<<<LB, Key("messages"), Num(8), RB>>>>),
                      Array(<<<<Num(8)>>>>), <<LB, RB>>, <<Num(8)>>, <<LK, LB>>}
      [] OTHER ->
            {<<LB, Key("results")>> \o Array(f) \o <<RB>> : f \in Findings(BanditItems)}
                \cup {<<LB, RB>>, <<LB, Key("results"), Num(8), RB>>, Array(<<>>),
                      <<Num(8)>>, <<LK, LB>>}

Stdouts(tool) ==
    {EmptyStdout} \cup {JsonStdout(toks) : toks \in JsonStdouts(tool)}
        \cup {TextStdout(lines) : lines \in Texts}

ToolOutcomes(tool) ==
    {ToolOutcome("timeout", EmptyStdout), ToolOutcome("spawn_error", EmptyStdout)}
        \cup {ToolOutcome("completed", stdout) : stdout \in Stdouts(tool)}

\* a few outcomes of each kind, for the tools that run beside the one observed
FewOutcomes(tool) ==
    {ToolOutcome("timeout", EmptyStdout), ToolOutcome("spawn_error", EmptyStdout),
     ToolOutcome("completed", EmptyStdout),
     ToolOutcome("completed", TextStdout(<<<<"f.py", "3", "error", "msg">>>>))}

FileOutcomes == {"ok", "error"}
Env(create, write, unlink, outcome) ==
    [create |-> create, write |-> write, unlink |-> unlink, outcome |-> outcome]

\* the environments of a call that runs the tools of the sequence ran: the
\* steps a call does not reach have no outcome
InSeq(x, seq) == \E i \in 1..Len(seq) : seq[i] = x

OutcomeChoices(tool, ran, observed) ==
    IF InSeq(tool, ran)
    THEN (IF tool = observed THEN ToolOutcomes(tool) ELSE FewOutcomes(tool))
    ELSE {NotRun}

OutcomesOf(ran, observed) ==
    {[pylint |-> a, eslint |-> b, bandit |-> c] :
        a \in OutcomeChoices("pylint", ran, observed),
        b \in OutcomeChoices("eslint", ran, observed),
        c \in OutcomeChoices("bandit", ran, observed)}

NoOutcomes == [pylint |-> NotRun, eslint |-> NotRun, bandit |-> NotRun]

Envs(ran) ==
    {Env("error", "not_reached", "not_reached", NoOutcomes),
     Env("ok", "error", "not_reached", NoOutcomes)}
        \cup {Env("ok", "ok", unlink, outcome) :
                unlink \in FileOutcomes \cup {"missing"},
                outcome \in UNION {OutcomesOf(ran, observed) : observed \in Tools}}

(***************************************************************************)
(* State of the last calls.                                                *)
(***************************************************************************)
AIIdle ==
    [phase |-> "idle", code |-> <<>>, language |-> "", outcome |-> "", content |-> <<>>,
     raised |-> FALSE, calls |-> <<>>, via |-> "none", value |-> JSONDecodeError]

ReviewIdle == [phase |-> "idle"]
TRIdle == [phase |-> "idle"]
BatchIdle == [phase |-> "idle"]
RDIdle == [phase |-> "idle"]
LoopIdle == [running |-> 0, tasks |-> <<>>]

SAIdle ==
    [phase |-> "idle", language |-> "", env |-> Env("", "", "", NoOutcomes),
     raised |-> FALSE, ran |-> <<>>, results |-> <<>>, created |-> FALSE, left |-> FALSE]

\* a caller invokes ai_engine.analyze_code(code, language, context)
AIReturned(req, outcome, content, r) ==
    [phase |-> "returned", code |-> req.code, language |-> req.language,
     outcome |-> outcome, content |-> content,
     raised |-> r.raised, calls |-> r.calls, via |-> r.via, value |-> r.value]

AICall(req, outcome, content) ==
    ai' = AIReturned(req, outcome, content,
                     AnalyzeCode(providers, req.code, req.language, outcome, content))

AIAnalyzeCode ==
    /\ ai.phase = "idle"
    /\ sa.phase = "idle"
    /\ review.phase = "idle"
    /\ \E req \in AIRequests :
          IF Configured(providers)
          THEN \E outcome \in ProviderOutcomes :
                  \E content \in (IF outcome = "text" THEN Responses ELSE {<<>>}) :
                      AICall(req, outcome, content)
          ELSE AICall(req, "", <<>>)
    /\ UNCHANGED <<providers, tools_config, tmp_files, tmp_created, sa, review, review_history, next_review, tr, batch,
                   completed, rd, loop>>

\* the caller has consumed the result
AIReturn ==
    /\ ai.phase = "returned"
    /\ ai' = AIIdle
    /\ UNCHANGED <<providers, tools_config, tmp_files, tmp_created, sa, review, review_history, next_review, tr, batch,
                   completed, rd, loop>>

\* a caller invokes static_analyzer.analyze_code(code, language)
SAReturned(language, env, r) ==
    [phase |-> "returned", language |-> language, env |-> env,
     raised |-> r.raised, ran |-> r.ran, results |-> r.results,
     created |-> r.created, left |-> r.left]

SACall(language, env, r) ==
    /\ sa' = SAReturned(language, env, r)
    /\ tmp_created' = IF r.created THEN tmp_created + 1 ELSE tmp_created
    /\ tmp_files' = IF r.left THEN tmp_files \cup {tmp_created + 1} ELSE tmp_files

SAAnalyzeCode ==
    /\ ai.phase = "idle"
    /\ sa.phase = "idle"
    /\ review.phase = "idle"
    /\ tmp_created < MaxTmpFiles
    /\ \E language \in ProgrammingLanguage :
          \E env \in Envs(ToolsFor(tools_config, language)) :
              SACall(language, env, StaticAnalyzeCode(tools_config, language, env))
    /\ UNCHANGED <<providers, tools_config, ai, review, review_history, next_review, tr, batch,
                   completed, rd, loop>>

\* the caller has consumed the result
SAReturn ==
    /\ sa.phase = "returned"
    /\ sa' = SAIdle
    /\ UNCHANGED <<providers, tools_config, tmp_files, tmp_created, ai, review, review_history, next_review, tr, batch,
                   completed, rd, loop>>

InitStatic ==
    /\ providers = [openai |-> FALSE, cohere |-> FALSE, anthropic |-> FALSE]
    /\ tools_config \in [pylint : BOOLEAN, eslint : BOOLEAN, bandit : BOOLEAN]
    /\ tmp_files = {}
    /\ tmp_created = 0
    /\ ai = AIIdle
    /\ sa = SAIdle
    /\ review = ReviewIdle
    /\ review_history = <<>>
    /\ next_review = 0
    /\ tr = TRIdle
    /\ batch = BatchIdle
    /\ completed = <<>>
    /\ rd = RDIdle
    /\ loop = LoopIdle

NextStatic == SAAnalyzeCode \/ SAReturn

SpecStatic == InitStatic /\ [][NextStatic]_vars

\* a tool runs on a file, and runs again where its output has one more
\* finding: _run_pylint, _run_eslint or _run_bandit, twice
ItemsOf(tool) ==
    CASE tool = "pylint" -> PylintItems
      [] tool = "eslint" -> EslintItems
      [] OTHER -> BanditItems

FindingsStdout(tool, findings) ==
    JsonStdout(CASE tool = "pylint" -> Array(findings)
                 [] tool = "eslint" -> Array(<<EslintFileToks(findings)>>)
                 [] OTHER -> <<LB, Key("results")>> \o Array(findings) \o <<RB>>)

\* subprocess.run without check=True returns the CompletedProcess of a
\* process that ended, whatever its exit code; no tool runner reads
\* result.returncode
CompletedProcess(returncode, stdout) ==
    [run |-> "completed", stdout |-> stdout, returncode |-> returncode]

\* the exit codes of a linter: 0, and 1 when it has findings or has failed
ExitCodes == {0, 1}

TRReturned(tool, returncode, stdout, more_stdout) ==
    [phase |-> "returned", tool |-> tool, returncode |-> returncode,
     stdout |-> stdout, more_stdout |-> more_stdout,
     result |-> RunTool(tool, CompletedProcess(returncode, stdout)),
     more |-> RunTool(tool, CompletedProcess(returncode, more_stdout))]

TRRunTwice ==
    /\ ai.phase = "idle"
    /\ sa.phase = "idle"
    /\ review.phase = "idle"
    /\ tr.phase = "idle"
    /\ \E tool \in Tools, returncode \in ExitCodes :
          \/ \E findings \in Findings(ItemsOf(tool)) :
                \E item \in ItemsOf(tool) :
                    tr' = TRReturned(tool, returncode, FindingsStdout(tool, findings),
                                     FindingsStdout(tool, Append(findings, item)))
          \/ \E lines \in Texts :
                \E line \in TextLines :
                    tr' = TRReturned(tool, returncode, TextStdout(lines),
                                     TextStdout(Append(lines, line)))
    /\ UNCHANGED <<providers, tools_config, tmp_files, tmp_created, ai, sa, review,
                   review_history, next_review, batch, completed, rd, loop>>

TRReturn ==
    /\ tr.phase = "returned"
    /\ tr' = TRIdle
    /\ UNCHANGED <<providers, tools_config, tmp_files, tmp_created, ai, sa, review,
                   review_history, next_review, batch, completed, rd, loop>>

NextTool == TRRunTwice \/ TRReturn

SpecTool == InitStatic /\ [][NextTool]_vars

InitAI ==
    /\ providers \in ClientConfigs
    /\ tools_config = [pylint |-> TRUE, eslint |-> TRUE, bandit |-> TRUE]
    /\ tmp_files = {}
    /\ tmp_created = 0
    /\ ai = AIIdle
    /\ sa = SAIdle
    /\ review = ReviewIdle
    /\ review_history = <<>>
    /\ next_review = 0
    /\ tr = TRIdle
    /\ batch = BatchIdle
    /\ completed = <<>>
    /\ rd = RDIdle
    /\ loop = LoopIdle

NextAI == AIAnalyzeCode \/ AIReturn

SpecAI == InitAI /\ [][NextAI]_vars

(***************************************************************************)
(* ReviewPresenter.review_code: the handler of a review request.           *)
(***************************************************************************)
HistoryLimit == 100

\* ReviewPresenter._store_review_history
HistoryItem(response) ==
    [review_id |-> response.review_id, language |-> response.language,
     overall_score |-> response.overall_score, total_issues |-> response.total_issues,
     summary |-> response.summary]

\* a truncation that keeps the head of the list
KeepOldest(history) ==
    IF Len(history) > HistoryLimit THEN SubSeq(history, 1, HistoryLimit) ELSE history

LastOfHistory(history) ==
    IF Len(history) > HistoryLimit
    THEN SubSeq(history, Len(history) - HistoryLimit + 1, Len(history))
    ELSE history

StoreReviewHistory(history, response) == LastOfHistory(Append(history, HistoryItem(response)))

\* the calls review_code leaves out when the request does not include them
StaticSkipped ==
    [raised |-> FALSE, ran |-> <<>>, results |-> <<>>, created |-> FALSE, left |-> FALSE]
AISkipped == Returned(<<>>, "none", JSONDecodeError)

\* static_results after the try/except around static_analyzer.analyze_code
StaticResultsOf(sr) == IF sr.raised THEN <<>> ELSE sr.results

\* ai_result after the try/except around ai_engine.analyze_code and
\* _convert_ai_analysis
AIResultOf(request, t) ==
    IF request.include_ai_analysis /\ ~t.raised /\ ConvertAIAnalysisOk(t.value)
    THEN <<ConvertAIAnalysis(t.value)>>
    ELSE <<>>

ScoresOf(static_results) == [i \in 1..Len(static_results) |-> static_results[i].score]
ToolsOf(static_results) == [i \in 1..Len(static_results) |-> static_results[i].tool]
AIScoreOf(ai_result) == IF ai_result = <<>> THEN Points(5) ELSE ai_result[1].score

CodeReviewResponse(review_id, request, static_results, ai_result, all_issues, suggestions, overall_score) ==
    [review_id |-> review_id,
     language |-> request.language,
     static_analysis |-> IF static_results = <<>> THEN <<>> ELSE <<static_results[1]>>,
     ai_analysis |-> ai_result,
     overall_score |-> overall_score,
     total_issues |-> Len(all_issues),
     critical_issues |-> CountIssuesBySeverity(all_issues)["critical"],
     security_issues |-> Len(ExtractSecurityConcerns(ai_result)),
     summary |-> GenerateSummary(all_issues, suggestions, overall_score),
     recommendations |-> GenerateRecommendations(all_issues, suggestions, request.focus_areas),
     tools_used |-> ToolsOf(static_results)
                        \o (IF ai_result = <<>> THEN <<>> ELSE <<"ai_engine">>)]

Respond(review_id, request, static_results, ai_result) ==
    CodeReviewResponse(review_id, request, static_results, ai_result,
                       CombineIssues(static_results, ai_result),
                       ExtractSuggestions(ai_result),
                       CalculateOverallScore(ScoresOf(static_results), AIScoreOf(ai_result)))

\* subprocess.run(cmd, capture_output=True, text=True, timeout=30)
ToolTimeout == 30

\* the seconds review_code has spent in static_analyzer.analyze_code when it
\* comes to ai_engine.analyze_code: the tools run one after the other, each
\* until it ends or its timeout expires (a run that ends counts as no time)
SecondsInTools(sr, env) ==
    ToolTimeout * Cardinality({i \in 1..Len(sr.ran) : env.outcome[sr.ran[i]].run = "timeout"})

\* what the caller of review_code sees, and what the call saw on its way
Reviewed(request, env, outcome, content, sr, t, response) ==
    [phase |-> "returned", request |-> request, env |-> env, outcome |-> outcome,
     content |-> content, raised |-> FALSE, error |-> "",
     static_raised |-> sr.raised, static_results |-> StaticResultsOf(sr),
     ai_started |-> SecondsInTools(sr, env),
     ai_calls |-> t.calls, ai_via |-> t.via, ai_data |-> t.value,
     all_issues |-> CombineIssues(StaticResultsOf(sr), AIResultOf(request, t)),
     issue_counts |->
         CountIssuesBySeverity(CombineIssues(StaticResultsOf(sr), AIResultOf(request, t))),
     response |-> <<response>>]

Rejected(request, error) ==
    [phase |-> "returned", request |-> request, env |-> Env("", "", "", NoOutcomes),
     outcome |-> "", content |-> <<>>, raised |-> TRUE, error |-> error, ai_started |-> 0,
     static_raised |-> FALSE, static_results |-> <<>>,
     ai_calls |-> <<>>, ai_via |-> "none", ai_data |-> JSONDecodeError,
     all_issues |-> <<>>, issue_counts |-> CountIssuesBySeverity(<<>>),
     response |-> <<>>]

ReviewEffect(request, env, outcome, content, sr, t, response) ==
    /\ review' = Reviewed(request, env, outcome, content, sr, t, response)
    /\ review_history' = StoreReviewHistory(review_history, response)
    /\ completed' = Append(completed, response.review_id)
    /\ tmp_created' = IF sr.created THEN tmp_created + 1 ELSE tmp_created
    /\ tmp_files' = IF sr.left THEN tmp_files \cup {tmp_created + 1} ELSE tmp_files

ReviewCalls(request, env, outcome, content, sr, t) ==
    ReviewEffect(request, env, outcome, content, sr, t,
                 Respond(next_review + 1, request, StaticResultsOf(sr), AIResultOf(request, t)))

ReviewWith(request, sanitized_code, env, outcome, content) ==
    ReviewCalls(request, env, outcome, content,
                IF request.include_static_analysis
                THEN StaticAnalyzeCode(tools_config, request.language, env)
                ELSE StaticSkipped,
                IF request.include_ai_analysis
                THEN AnalyzeCode(providers, sanitized_code, request.language, outcome, content)
                ELSE AISkipped)

(***************************************************************************)
(* The review requests and what the environment does to a review.          *)
(***************************************************************************)
CodeReviewRequest(code, language, include_static_analysis, include_ai_analysis, focus_areas) ==
    [code |-> code, language |-> language,
     include_static_analysis |-> include_static_analysis,
     include_ai_analysis |-> include_ai_analysis, focus_areas |-> focus_areas]

ReviewSubjects ==
    {<<RecursiveFib, "python">>, <<PlainCode \o <<"password='pw'">>, "python">>,
     <<PlainCode, "javascript">>, <<PlainCode, "java">>,
     <<<<" ">>, "python">>, <<<<"(11 MB literal)">>, "python">>, <<<<>>, "python">>}

ReviewRequests ==
    {CodeReviewRequest(subject[1], subject[2], static, with_ai, focus_areas) :
        subject \in ReviewSubjects, static \in BOOLEAN, with_ai \in BOOLEAN,
        focus_areas \in {<<>>, <<"security", "speed">>,
                          <<"security", "performance", "readability">>,
                          <<"readability", "maintainability">>}}

FoundOutcome(tool) ==
    ToolOutcome("completed",
                JsonStdout(CASE tool = "pylint" -> Array(<<PylintMessage("fatal")>>)
                             [] tool = "eslint" ->
                                   Array(<<EslintFileToks(<<EslintMessageToks(Num(2))>>)>>)
                             [] OTHER -> <<LB, Key("results")>>
                                             \o Array(<<BanditIssueToks("HIGH")>>) \o <<RB>>))

ReviewOutcomes(tool) ==
    {ToolOutcome("timeout", EmptyStdout),
     ToolOutcome("completed", TextStdout(<<<<"f.py", "3", "error", "msg">>>>)),
     FoundOutcome(tool)}

ReviewOutcomeChoices(tool, ran) == IF InSeq(tool, ran) THEN ReviewOutcomes(tool) ELSE {NotRun}

ReviewEnvs(request) ==
    IF ~request.include_static_analysis THEN {Env("", "", "", NoOutcomes)}
    ELSE {Env("error", "not_reached", "not_reached", NoOutcomes),
          Env("ok", "error", "not_reached", NoOutcomes)}
             \cup {Env("ok", "ok", unlink, [pylint |-> a, eslint |-> b, bandit |-> c]) :
                     unlink \in FileOutcomes,
                     a \in ReviewOutcomeChoices("pylint", ToolsFor(tools_config, request.language)),
                     b \in ReviewOutcomeChoices("eslint", ToolsFor(tools_config, request.language)),
                     c \in ReviewOutcomeChoices("bandit", ToolsFor(tools_config, request.language))}

ReviewResponses ==
    {IssueBody("performance_issue", "high"),
     IssueBody("bogus", "high"),
     <<LB, Key("score"), Num(11), RB>>,
     <<LB, Key("score"), Num(0), RB>>,
     <<LB, Key("score"), Num(-1), Key("issues"), LK,
       LB, Key("type"), Str("performance_issue"), Key("severity"), Str("high"), RB, RK, RB>>,
     <<LK, LB, Key("score"), Num(8), RB, RK>>,
     <<Num(8)>>,
     <<Word("recursive"), Word("Performance"), Word("fibonacci")>>}

\* the provider call of a review: none where the request leaves the AI
\* analysis out or no provider is configured
ProviderCalls(request) ==
    IF request.include_ai_analysis /\ Configured(providers)
    THEN {<<"raises", <<>>>>, <<"timeout", <<>>>>}
             \cup {<<"text", content>> : content \in ReviewResponses}
    ELSE {<<"", <<>>>>}

\* a client posts a review request; the action is the whole of review_code
ReviewCode ==
    /\ ai.phase = "idle"
    /\ sa.phase = "idle"
    /\ review.phase = "idle"
    /\ next_review < MaxReviews
    /\ next_review' = next_review + 1
    /\ \E request \in ReviewRequests :
          IF ~CodeReviewRequestOk(request)
          THEN /\ review' = Rejected(request, "RequestValidationError")
               /\ UNCHANGED <<review_history, tmp_files, tmp_created, completed>>
          ELSE IF ValidateReviewRequest(request)
          THEN \E env \in ReviewEnvs(request) :
                  \E call \in ProviderCalls(request) :
                      ReviewWith(request, SanitizeCode(request.code), env, call[1], call[2])
          ELSE /\ review' = Rejected(request, "ValueError")
               /\ UNCHANGED <<review_history, tmp_files, tmp_created, completed>>
    /\ UNCHANGED <<providers, tools_config, ai, sa, tr, batch, rd, loop>>

\* the client has the response, or the error
ReviewReturn ==
    /\ review.phase = "returned"
    /\ review' = ReviewIdle
    /\ UNCHANGED <<providers, tools_config, tmp_files, tmp_created, ai, sa,
                   review_history, next_review, tr, batch,
                   completed, rd, loop>>

ReviewClientConfigs ==
    {[openai |-> FALSE, cohere |-> FALSE, anthropic |-> FALSE],
     [openai |-> TRUE, cohere |-> TRUE, anthropic |-> FALSE],
     [openai |-> FALSE, cohere |-> FALSE, anthropic |-> TRUE]}

Init ==
    /\ providers \in ReviewClientConfigs
    /\ tools_config = [pylint |-> TRUE, eslint |-> TRUE, bandit |-> TRUE]
    /\ tmp_files = {}
    /\ tmp_created = 0
    /\ ai = AIIdle
    /\ sa = SAIdle
    /\ review = ReviewIdle
    /\ review_history = <<>>
    /\ next_review = 0
    /\ tr = TRIdle
    /\ batch = BatchIdle
    /\ completed = <<>>
    /\ rd = RDIdle
    /\ loop = LoopIdle

Next == ReviewCode \/ ReviewReturn

Spec == Init /\ [][Next]_vars

(***************************************************************************)
(* ReviewPresenter.batch_review: the files of a batch are reviewed one     *)
(* after the other by review_code, each in a try/except of its own.        *)
(***************************************************************************)
MaxFiles == 3
MaxBatchIds == 4

BatchReviewRequest(files, include_static_analysis, include_ai_analysis, focus_areas) ==
    [files |-> files, include_static_analysis |-> include_static_analysis,
     include_ai_analysis |-> include_ai_analysis, focus_areas |-> focus_areas]

\* CodeReviewRequest(code=file_data['code'], ...): pydantic refuses a code
\* of no character (min_length=1) and a language outside the enum
IndividualRequestOk(file_data) ==
    Len(file_data.code) >= 1 /\ file_data.language \in ProgrammingLanguage

IndividualRequest(request, file_data) ==
    CodeReviewRequest(file_data.code, file_data.language, request.include_static_analysis,
                      request.include_ai_analysis, request.focus_areas)

\* the locals of batch_review's loop, with what review_code changes
BatchStart(first_id) ==
    [reviews |-> <<>>, successful_reviews |-> 0, failed_reviews |-> 0, attempted |-> <<>>,
     history |-> review_history, created |-> tmp_created, files |-> tmp_files,
     next_id |-> first_id]

\* except Exception: failed_reviews += 1
BatchFailed(acc, i, ids) ==
    [acc EXCEPT !.failed_reviews = @ + 1, !.attempted = Append(@, i), !.next_id = @ + ids]

\* an aggregation that counts the issues of the reviews in the history too
BatchReviewedWithHistory(acc, i, request, sr, t) ==
    [acc EXCEPT
        !.reviews = Append(@, [Respond(acc.next_id + 1, request, StaticResultsOf(sr),
                                       AIResultOf(request, t))
                                  EXCEPT !.total_issues = @ + Len(acc.history)]),
        !.successful_reviews = @ + 1,
        !.attempted = Append(@, i),
        !.history = StoreReviewHistory(@, Respond(acc.next_id + 1, request, StaticResultsOf(sr),
                                                  AIResultOf(request, t))),
        !.created = IF sr.created THEN @ + 1 ELSE @,
        !.files = IF sr.left THEN @ \cup {acc.created + 1} ELSE @,
        !.next_id = @ + 1]

\* reviews.append(review_response); successful_reviews += 1
BatchReviewed(acc, i, request, sr, t) ==
    [acc EXCEPT
        !.reviews = Append(@, Respond(acc.next_id + 1, request, StaticResultsOf(sr),
                                      AIResultOf(request, t))),
        !.successful_reviews = @ + 1,
        !.attempted = Append(@, i),
        !.history = StoreReviewHistory(@, Respond(acc.next_id + 1, request, StaticResultsOf(sr),
                                                  AIResultOf(request, t))),
        !.created = IF sr.created THEN @ + 1 ELSE @,
        !.files = IF sr.left THEN @ \cup {acc.created + 1} ELSE @,
        !.next_id = @ + 1]

\* one turn of the loop: the request is built, review_code is awaited
BatchFile(acc, i, request, env, call) ==
    IF ~IndividualRequestOk(request.files[i]) THEN BatchFailed(acc, i, 0)
    ELSE IF ~ValidateReviewRequest(IndividualRequest(request, request.files[i]))
    THEN BatchFailed(acc, i, 1)
    ELSE BatchReviewed(acc, i, IndividualRequest(request, request.files[i]),
                       IF request.include_static_analysis
                       THEN StaticAnalyzeCode(tools_config, request.files[i].language, env)
                       ELSE StaticSkipped,
                       IF request.include_ai_analysis
                       THEN AnalyzeCode(providers, SanitizeCode(request.files[i].code),
                                        request.files[i].language, call[1], call[2])
                       ELSE AISkipped)

RECURSIVE BatchLoopStopsAtFailure(_, _, _, _, _)
BatchLoopStopsAtFailure(acc, request, envs, calls, i) ==
    IF i > Len(request.files) \/ acc.failed_reviews > 0 THEN acc
    ELSE BatchLoopStopsAtFailure(BatchFile(acc, i, request, envs[i], calls[i]),
                                 request, envs, calls, i + 1)

\* for file_data in request.files
RECURSIVE BatchLoop(_, _, _, _, _)
BatchLoop(acc, request, envs, calls, i) ==
    IF i > Len(request.files) THEN acc
    ELSE BatchLoop(BatchFile(acc, i, request, envs[i], calls[i]), request, envs, calls, i + 1)

RECURSIVE SumOverall(_, _)
SumOverall(reviews, i) ==
    IF i > Len(reviews) THEN 0 ELSE reviews[i].overall_score + SumOverall(reviews, i + 1)
RECURSIVE SumIssues(_, _)
SumIssues(reviews, i) ==
    IF i > Len(reviews) THEN 0 ELSE reviews[i].total_issues + SumIssues(reviews, i + 1)

\* ReviewPresenter._generate_batch_summary; the average is in tenths (:.1f)
GenerateBatchSummary(reviews, successful, failed) ==
    IF reviews = <<>>
    THEN [text |-> "Batch review completed: S successful, F failed",
          successful |-> successful, failed |-> failed, average |-> 0, total_issues |-> 0]
    ELSE [text |-> "Batch review completed: S successful, F failed. Average score: A, Total issues: T",
          successful |-> successful, failed |-> failed,
          average |-> Round2(SumOverall(reviews, 1), 10 * Len(reviews)),
          total_issues |-> SumIssues(reviews, 1)]

BatchReviewResponse(batch_id, request, acc) ==
    [batch_id |-> batch_id, total_files |-> Len(request.files),
     successful_reviews |-> acc.successful_reviews, failed_reviews |-> acc.failed_reviews,
     reviews |-> acc.reviews,
     overall_summary |->
         GenerateBatchSummary(acc.reviews, acc.successful_reviews, acc.failed_reviews)]

\* the route handlers of review_router.py answer an exception that is a
\* ValueError with status 400 and its text, and any other exception, an
\* HTTPException raised inside the try block included, with status 500
BatchLimit == 50
HTTPException(status_code, detail) ==
    [type |-> "HTTPException", status_code |-> status_code, detail |-> detail]
ValueError(detail) == [type |-> "ValueError", status_code |-> 0, detail |-> detail]

RouterExcept(e, failed) ==
    IF e.type = "ValueError"
    THEN [status_code |-> 400, detail |-> e.detail, cause |-> <<>>]
    ELSE [status_code |-> 500, detail |-> failed, cause |-> <<e>>]

OK == [status_code |-> 200, detail |-> "", cause |-> <<>>]

\* what the client of POST /review/batch sees, and what the call saw on its
\* way
BatchReturned(request, envs, calls, acc) ==
    [phase |-> "returned", request |-> request, envs |-> envs, calls |-> calls,
     attempted |-> acc.attempted, http |-> OK,
     response |-> BatchReviewResponse(next_review + 1, request, acc)]

\* if len(request.files) > 50: the presenter is not reached
BatchRefused(request) ==
    [phase |-> "refused", request |-> request, attempted |-> <<>>,
     http |-> RouterExcept(HTTPException(400, "Batch size cannot exceed 50 files"),
                           "Batch review failed: E")]

BatchEffect(request, envs, calls, acc) ==
    /\ batch' = BatchReturned(request, envs, calls, acc)
    /\ review_history' = acc.history
    /\ completed' = completed \o [k \in 1..Len(acc.reviews) |-> acc.reviews[k].review_id]
    /\ tmp_created' = acc.created
    /\ tmp_files' = acc.files
    /\ next_review' = acc.next_id

\* the files of a batch, and what the environment does to each review
BatchFiles ==
    {[code |-> RecursiveFib, language |-> "python"],
     [code |-> PlainCode, language |-> "javascript"],
     [code |-> <<>>, language |-> "python"],
     [code |-> <<" ">>, language |-> "python"]}

BatchRequests(n) ==
    {BatchReviewRequest(files, static, with_ai, focus_areas) :
        files \in [1..n -> BatchFiles], static \in BOOLEAN, with_ai \in BOOLEAN,
        focus_areas \in {<<>>, <<"security">>}}

\* review_code reaches its analyzers for the file
Reviewable(request, file_data) ==
    /\ IndividualRequestOk(file_data)
    /\ ValidateReviewRequest(IndividualRequest(request, file_data))

BatchEnvs(request, file_data) ==
    IF ~request.include_static_analysis \/ ~Reviewable(request, file_data)
    THEN {Env("", "", "", NoOutcomes)}
    ELSE {Env("error", "not_reached", "not_reached", NoOutcomes),
          Env("ok", "ok", "ok",
              [tool \in Tools |->
                  IF InSeq(tool, ToolsFor(tools_config, file_data.language))
                  THEN FoundOutcome(tool) ELSE NotRun])}

BatchCalls(request, file_data) ==
    IF request.include_ai_analysis /\ Configured(providers) /\ Reviewable(request, file_data)
    THEN {<<"raises", <<>>>>, <<"text", IssueBody("performance_issue", "high")>>}
    ELSE {<<"", <<>>>>}

EnvsOf(request) ==
    {envs \in [1..Len(request.files) -> UNION {BatchEnvs(request, f) : f \in BatchFiles}] :
        \A i \in 1..Len(request.files) : envs[i] \in BatchEnvs(request, request.files[i])}

\* the batches of more files than the router lets through
OversizedBatches ==
    {BatchReviewRequest([i \in 1..(BatchLimit + 1) |-> f], TRUE, TRUE, <<>>) :
        f \in BatchFiles}

CallsOf(request) ==
    {calls \in [1..Len(request.files) -> UNION {BatchCalls(request, f) : f \in BatchFiles}] :
        \A i \in 1..Len(request.files) : calls[i] \in BatchCalls(request, request.files[i])}

\* a client posts a batch; the action is the whole of the route handler
\* batch_review, with ReviewPresenter.batch_review inside
BatchReview ==
    /\ ai.phase = "idle"
    /\ sa.phase = "idle"
    /\ review.phase = "idle"
    /\ tr.phase = "idle"
    /\ batch.phase = "idle"
    /\ \/ \E n \in 0..MaxFiles :
             /\ next_review + 1 + n <= MaxBatchIds
             /\ \E request \in BatchRequests(n) :
                   \E envs \in EnvsOf(request) :
                       \E calls \in CallsOf(request) :
                           BatchEffect(request, envs, calls,
                                       BatchLoop(BatchStart(next_review + 1), request, envs,
                                                 calls, 1))
       \/ \E request \in OversizedBatches :
             /\ batch' = BatchRefused(request)
             /\ UNCHANGED <<review_history, tmp_created, tmp_files, next_review, completed>>
    /\ UNCHANGED <<providers, tools_config, ai, sa, review, tr, rd, loop>>

BatchReturn ==
    /\ batch.phase # "idle"
    /\ batch' = BatchIdle
    /\ UNCHANGED <<providers, tools_config, tmp_files, tmp_created, ai, sa, review,
                   review_history, next_review, tr, completed, rd, loop>>

NextBatch == BatchReview \/ BatchReturn

SpecBatch == Init /\ [][NextBatch]_vars

(***************************************************************************)
(* The reads of the history: GET /review/{review_id} and                   *)
(* GET /dashboard/metrics.                                                 *)
(***************************************************************************)
\* for review in review_presenter.review_history: if review.review_id == review_id
RECURSIVE FindReview(_, _, _)
FindReview(history, review_id, i) ==
    IF i > Len(history) THEN 0
    ELSE IF history[i].review_id = review_id THEN i
    ELSE FindReview(history, review_id, i + 1)

\* the CodeReviewResponse get_review builds from a ReviewHistory entry
ReviewOfHistory(item) ==
    [review_id |-> item.review_id, language |-> item.language,
     static_analysis |-> <<>>, ai_analysis |-> <<>>,
     overall_score |-> item.overall_score, total_issues |-> item.total_issues,
     critical_issues |-> 0, security_issues |-> 0, summary |-> item.summary,
     recommendations |-> <<>>, tools_used |-> <<>>]

\* a handler whose except Exception clause catches its own HTTPException
GetReviewExceptAll(e) ==
    [status_code |-> 500, detail |-> "Failed to retrieve review: E", cause |-> <<e>>]

\* get_review: except HTTPException: raise; except Exception: 500
GetReviewExcept(e) ==
    IF e.type = "HTTPException"
    THEN [status_code |-> e.status_code, detail |-> e.detail, cause |-> <<>>]
    ELSE [status_code |-> 500, detail |-> "Failed to retrieve review: E", cause |-> <<e>>]

GetReviewAt(history, review_id, i) ==
    [phase |-> "returned", endpoint |-> "get_review", review_id |-> review_id,
     observed |-> Len(history),
     http |-> IF i = 0 THEN GetReviewExcept(HTTPException(404, "Review not found")) ELSE OK,
     body |-> IF i = 0 THEN <<>> ELSE <<ReviewOfHistory(history[i])>>]

GetReviewOf(history, review_id) ==
    GetReviewAt(history, review_id, FindReview(history, review_id, 1))

\* ReviewPresenter.get_dashboard_metrics
RECURSIVE SumScores(_, _)
SumScores(history, i) ==
    IF i > Len(history) THEN 0 ELSE history[i].overall_score + SumScores(history, i + 1)

\* the parts of a summary that hold the word: generate_summary writes none
\* with "security" or "performance" in it
PartsWith(word) == {}
Mentions(summary, word) == \E i \in 1..Len(summary) : summary[i].text \in PartsWith(word)

RECURSIVE IssuesMentioning(_, _, _)
IssuesMentioning(history, word, i) ==
    IF i > Len(history) THEN 0
    ELSE (IF Mentions(history[i].summary, word) THEN history[i].total_issues ELSE 0)
             + IssuesMentioning(history, word, i + 1)

\* sorted(review_history, key=timestamp, reverse=True)[:10]: the entries are
\* in the order of their timestamps
RecentReviews(history) ==
    [k \in 1..(IF Len(history) < 10 THEN Len(history) ELSE 10) |-> history[Len(history) + 1 - k]]

DashboardMetrics(history) ==
    IF history = <<>>
    THEN [total_reviews |-> 0, average_score |-> 0, language_distribution |-> <<>>,
          security_issues_count |-> 0, performance_issues_count |-> 0,
          recent_reviews |-> <<>>]
    ELSE [total_reviews |-> Len(history),
          average_score |-> Round2(SumScores(history, 1), Len(history)),
          language_distribution |->
              [language \in {history[i].language : i \in 1..Len(history)} |->
                  Cardinality({i \in 1..Len(history) : history[i].language = language})],
          security_issues_count |-> IssuesMentioning(history, "security", 1),
          performance_issues_count |-> IssuesMentioning(history, "performance", 1),
          recent_reviews |-> RecentReviews(history)]

GetDashboardMetricsOf(history) ==
    [phase |-> "returned", endpoint |-> "dashboard", review_id |-> 0,
     observed |-> Len(history), http |-> OK, body |-> <<DashboardMetrics(history)>>]

\* the ids a client asks for: of the oldest entry, of the reviews of this
\* behaviour, and one no review ever had
NeverAnId == MaxBatchIds + MaxReviews + 1
AskedIds == {1 - HistoryLimit, 1, 2, NeverAnId}

Quiet ==
    /\ ai.phase = "idle"
    /\ sa.phase = "idle"
    /\ review.phase = "idle"
    /\ tr.phase = "idle"
    /\ batch.phase = "idle"
    /\ rd.phase = "idle"

GetReview ==
    /\ Quiet
    /\ \E review_id \in AskedIds : rd' = GetReviewOf(review_history, review_id)
    /\ UNCHANGED <<providers, tools_config, tmp_files, tmp_created, ai, sa, review,
                   review_history, next_review, tr, batch, completed, loop>>

GetDashboardMetrics ==
    /\ Quiet
    /\ rd' = GetDashboardMetricsOf(review_history)
    /\ UNCHANGED <<providers, tools_config, tmp_files, tmp_created, ai, sa, review,
                   review_history, next_review, tr, batch, completed, loop>>

ReadReturn ==
    /\ rd.phase = "returned"
    /\ rd' = RDIdle
    /\ UNCHANGED <<providers, tools_config, tmp_files, tmp_created, ai, sa, review,
                   review_history, next_review, tr, batch, completed, loop>>

(***************************************************************************)
(* The service with a history: reviews, batches and reads one after the    *)
(* other, from a history that earlier reviews have filled or nearly        *)
(* filled.  The earlier reviews have the ids 1 - k .. 0.                   *)
(***************************************************************************)
EarlierReview(review_id) ==
    HistoryItem(Respond(review_id, CodeReviewRequest(PlainCode, "javascript", FALSE, FALSE, <<>>),
                        <<>>, <<>>))

EarlierReviews(k) == [i \in 1..k |-> EarlierReview(i - k)]

InitHistory ==
    /\ providers = [openai |-> FALSE, cohere |-> FALSE, anthropic |-> FALSE]
    /\ tools_config = [pylint |-> TRUE, eslint |-> TRUE, bandit |-> TRUE]
    /\ tmp_files = {}
    /\ tmp_created = 0
    /\ ai = AIIdle
    /\ sa = SAIdle
    /\ review = ReviewIdle
    /\ next_review = 0
    /\ tr = TRIdle
    /\ batch = BatchIdle
    /\ rd = RDIdle
    /\ loop = LoopIdle
    /\ \E k \in {HistoryLimit - 1, HistoryLimit} :
          /\ review_history = EarlierReviews(k)
          /\ completed = [i \in 1..k |-> i - k]

\* the clients of this behaviour ask for no focus areas and no AI analysis,
\* and for batches without static analysis
NoFocus(request) == request.focus_areas = <<>> /\ ~request.include_ai_analysis

NextHistory ==
    \/ Quiet /\ ReviewCode /\ NoFocus(review'.request)
    \/ ReviewReturn
    \/ Quiet /\ BatchReview /\ NoFocus(batch'.request)
             /\ ~batch'.request.include_static_analysis
    \/ BatchReturn
    \/ GetReview
    \/ GetDashboardMetrics
    \/ ReadReturn

SpecHistory == InitHistory /\ [][NextHistory]_vars

(***************************************************************************)
(* The requests on the event loop.  Every route handler is a coroutine     *)
(* (async def), and uvicorn runs the coroutines of the requests in flight  *)
(* on one event loop: a handler that has started keeps the loop until it   *)
(* waits for something.  The handlers await only review_code and           *)
(* batch_review, which wait for nothing, so a handler keeps the loop until *)
(* it returns.  The steps of a handler are the statements that read or     *)
(* write review_history.                                                   *)
(***************************************************************************)
MaxTasks == 3

\* a request in flight: where its handler is, the review id in hand (or the
\* id asked for), and the files a batch has left
Task(kind, arg, left) == [kind |-> kind, pc |-> "new", arg |-> arg, left |-> left]

LoopRequests ==
    {Task("review", 0, 1), Task("batch", 0, 1), Task("batch", 0, 2),
     Task("get_review", 1 - HistoryLimit, 0), Task("get_review", 1, 0),
     Task("dashboard", 0, 0)}

\* what the clients of this behaviour send: code without analysis
LoopCodeRequest(kind) ==
    IF kind = "review" THEN CodeReviewRequest(PlainCode, "javascript", FALSE, FALSE, <<>>)
    ELSE CodeReviewRequest(RecursiveFib, "python", FALSE, FALSE, <<>>)

\* the loop switches to another coroutine at every step
LoopAlwaysFree(l) == TRUE

\* no coroutine is running
LoopFree(l) == l.running = 0

At(slot, pc) ==
    /\ slot \in 1..Len(loop.tasks)
    /\ loop.running = slot
    /\ loop.tasks[slot].pc = pc

Goto(slot, pc) == loop' = [loop EXCEPT !.tasks[slot].pc = pc]

Finish(slot) == loop' = [loop EXCEPT !.tasks[slot].pc = "done", !.running = 0]

\* a request arrives: uvicorn makes a task of its handler
Arrive ==
    /\ Len(loop.tasks) < MaxTasks
    /\ \E task \in LoopRequests : loop' = [loop EXCEPT !.tasks = Append(@, task)]
    /\ UNCHANGED <<providers, tools_config, tmp_files, tmp_created, ai, sa, review,
                   review_history, next_review, tr, batch, completed, rd>>

\* the loop runs the handler of a request: batch_review takes its batch id
Start(slot) ==
    /\ slot \in 1..Len(loop.tasks)
    /\ LoopFree(loop)
    /\ loop.tasks[slot].pc = "new"
    /\ loop' = [loop EXCEPT !.running = slot,
                            !.tasks[slot].pc =
                                IF loop.tasks[slot].kind \in {"review", "batch"}
                                THEN "review_code" ELSE "read"]
    /\ next_review' = IF loop.tasks[slot].kind = "batch" THEN next_review + 1 ELSE next_review
    /\ UNCHANGED <<providers, tools_config, tmp_files, tmp_created, ai, sa, review,
                   review_history, tr, batch, completed, rd>>

\* review_code up to its response: the review has its id and is final
Finalize(slot) ==
    /\ At(slot, "review_code")
    /\ next_review' = next_review + 1
    /\ loop' = [loop EXCEPT !.tasks[slot].pc = "store", !.tasks[slot].arg = next_review + 1]
    /\ UNCHANGED <<providers, tools_config, tmp_files, tmp_created, ai, sa, review,
                   review_history, tr, batch, completed, rd>>

\* _store_review_history: self.review_history.append(history_entry)
StoreAppend(slot) ==
    /\ At(slot, "store")
    /\ review_history' =
           Append(review_history,
                  HistoryItem(Respond(loop.tasks[slot].arg,
                                      LoopCodeRequest(loop.tasks[slot].kind), <<>>, <<>>)))
    /\ Goto(slot, "appended")
    /\ UNCHANGED <<providers, tools_config, tmp_files, tmp_created, ai, sa, review,
                   next_review, tr, batch, completed, rd>>

\* _store_review_history: the last 100 are kept; review_code returns, and
\* batch_review goes on with its next file or returns
StoreTruncate(slot) ==
    /\ At(slot, "appended")
    /\ review_history' = LastOfHistory(review_history)
    /\ completed' = Append(completed, loop.tasks[slot].arg)
    /\ IF loop.tasks[slot].left > 1
       THEN loop' = [loop EXCEPT !.tasks[slot].pc = "review_code", !.tasks[slot].left = @ - 1]
       ELSE Finish(slot)
    /\ UNCHANGED <<providers, tools_config, tmp_files, tmp_created, ai, sa, review,
                   next_review, tr, batch, rd>>

\* get_review and get_dashboard_metrics
LoopRead(slot) ==
    /\ At(slot, "read")
    /\ rd' = IF loop.tasks[slot].kind = "get_review"
             THEN GetReviewOf(review_history, loop.tasks[slot].arg)
             ELSE GetDashboardMetricsOf(review_history)
    /\ Finish(slot)
    /\ UNCHANGED <<providers, tools_config, tmp_files, tmp_created, ai, sa, review,
                   review_history, next_review, tr, batch, completed>>

NextLoop ==
    \/ Arrive
    \/ \E slot \in 1..MaxTasks : Start(slot)
    \/ \E slot \in 1..MaxTasks : Finalize(slot)
    \/ \E slot \in 1..MaxTasks : StoreAppend(slot)
    \/ \E slot \in 1..MaxTasks : StoreTruncate(slot)
    \/ \E slot \in 1..MaxTasks : LoopRead(slot)

SpecLoop == InitHistory /\ [][NextLoop]_vars

(***************************************************************************)
(* Properties of the provider chain (SpecAI).                              *)
(***************************************************************************)
Priority(p) == CHOOSE i \in 1..Len(Providers) : Providers[i] = p
InPriorityOrder(calls) ==
    \A i, j \in 1..Len(calls) : i < j => Priority(calls[i]) < Priority(calls[j])
ConfiguredProviders(clients) == {Providers[i] : i \in {j \in 1..Len(Providers) : clients[Providers[j]]}}
Called(calls) == {calls[i] : i \in 1..Len(calls)}

\* C1: analyze_code calls the configured providers in the priority order
\* OpenAI, Cohere, Anthropic, each at most once, and reaches the heuristic
\* fallback only after every configured provider was called and failed.
ProvidersTriedInPriorityOrder ==
    ai.phase = "returned" =>
        /\ InPriorityOrder(ai.calls)
        /\ Called(ai.calls) \subseteq ConfiguredProviders(providers)
        /\ ai.via = "fallback" => Called(ai.calls) = ConfiguredProviders(providers)

FallbackAfterFirstProvider ==
    /\ ai.phase = "returned"
    /\ providers.openai /\ providers.cohere
    /\ ai.outcome = "raises"
    /\ ai.calls = <<"openai">>
    /\ ai.via = "fallback"

\* C2: analyze_code never raises, whatever the providers do; with no
\* provider configured it calls none and returns the fallback suggestions of
\* the code, a result that carries no mark of failure.
AnalyzeCodeNeverRaises ==
    ai.phase = "returned" =>
        /\ ~ai.raised
        /\ ai.via \in {"full", "fragment", "heuristic", "fallback"}
        /\ ai.outcome \in {"raises", "timeout"} =>
              ai.via = "fallback" /\ ai.value = GetFallbackSuggestions(ai.code, ai.language)
        /\ ~Configured(providers) =>
              /\ ai.calls = <<>>
              /\ ai.via = "fallback"
              /\ ai.value = GetFallbackSuggestions(ai.code, ai.language)
              /\ Get(ai.value, "score", None).n \in {6, 8}
              /\ Get(ai.value, "status", None) = None

FallbackWithoutProvider ==
    /\ ai.phase = "returned"
    /\ ~Configured(providers)
    /\ ai.via = "fallback"
    /\ ~ai.raised
    /\ Get(ai.value, "issues", None) = JArr(<<PerformanceIssue>>)

FragmentParses(content) == JsonMatch(content).found /\ Parses(JsonMatch(content).group)

\* C4: a provider's response is recovered by (a) the parse of the whole
\* response, else (b) the parse of the fragment between the outermost
\* braces, else (c) the heuristic text extraction: (a) wins whenever it
\* succeeds, and (c) is used only when neither (a) nor (b) succeeds.
RecoveryOrderIsStrict ==
    ai.phase = "returned" /\ ai.outcome = "text" =>
        /\ Parses(ai.content) => ai.via = "full" /\ ai.value = JsonLoads(ai.content)
        /\ ~Parses(ai.content) /\ FragmentParses(ai.content) =>
              ai.via = "fragment" /\ ai.value = JsonLoads(JsonMatch(ai.content).group)
        /\ ai.via = "heuristic" => ~Parses(ai.content) /\ ~FragmentParses(ai.content)

CohereSkipsFullParse ==
    /\ ai.phase = "returned"
    /\ ai.calls = <<"cohere">>
    /\ ai.content = <<Num(8)>>
    /\ Parses(ai.content)
    /\ ai.via = "heuristic"

SelfReferential(code) == CodeCount(code, "calculate_fibonacci") > 1
BothKeywords(content) == InLower("recursive", content) /\ InLower("performance", content)
ScoreOf(value) == Get(value, "score", None).n
PerformanceIssuesOf(value) ==
    SelectSeq(Get(value, "issues", JArr(<<>>)).items,
              LAMBDA issue : Get(issue, "type", None) = JStr("performance_issue"))

\* C5 as the spec states it: a heuristic result has score 3 and a
\* performance issue when the response has "recursive" and "performance" and
\* the code under review calls calculate_fibonacci from itself; otherwise
\* the score is 5 when the two keywords do not co-occur.
HeuristicScoreFollowsCode ==
    ai.phase = "returned" /\ ai.via = "heuristic" =>
        /\ BothKeywords(ai.content) /\ SelfReferential(ai.code) =>
              ScoreOf(ai.value) = 3 /\ Len(PerformanceIssuesOf(ai.value)) >= 1
        /\ ~BothKeywords(ai.content) => ScoreOf(ai.value) = 5

\* C5: a heuristic result has score 3 exactly when the response has both
\* "recursive" and "performance", and 5 otherwise; it has a performance
\* issue exactly when a line of the response has "recursive" and the
\* response has "fibonacci".  The code under review has no part in it.
HeuristicScoreFollowsResponse ==
    ai.phase = "returned" /\ ai.via = "heuristic" =>
        /\ ScoreOf(ai.value) = (IF BothKeywords(ai.content) THEN 3 ELSE 5)
        /\ Len(PerformanceIssuesOf(ai.value)) >= 1
              <=> InLower("recursive", ai.content) /\ InLower("fibonacci", ai.content)
        /\ ai.value = ExtractFromText(ai.content)

HeuristicScoreThree ==
    /\ ai.phase = "returned"
    /\ ai.via = "heuristic"
    /\ BothKeywords(ai.content)
    /\ InLower("fibonacci", ai.content)
    /\ SelfReferential(ai.code)
    /\ ScoreOf(ai.value) = 3
    /\ Len(PerformanceIssuesOf(ai.value)) >= 1

(***************************************************************************)
(* Properties of the tool runner (SpecStatic).                             *)
(***************************************************************************)
TimedOutTexts ==
    {"Pylint analysis timed out", "ESLint analysis timed out", "Bandit analysis timed out"}
FailedTexts ==
    {"Pylint analysis failed: error", "ESLint analysis failed: error",
     "Bandit analysis failed: error"}
FoundTexts ==
    {"Pylint found N issues", "ESLint found N issues", "Bandit found N security issues"}

StatusOf(result) == IF "status" \in DOMAIN result THEN result.status ELSE "(no status)"
Neutral(result) == result.score = Points(5) /\ result.issues = <<>>
OutcomeOf(i) == sa.env.outcome[sa.ran[i]]

\* C6 as the spec states it: a timed-out tool's result has status
\* timed_out, score 5.0 and no issue; a tool that failed otherwise has
\* status failed, score 5.0 and no issue.
ToolFailureHasStatus ==
    sa.phase = "returned" =>
        \A i \in 1..Len(sa.results) :
            /\ OutcomeOf(i).run = "timeout" =>
                  StatusOf(sa.results[i]) = "timed_out" /\ Neutral(sa.results[i])
            /\ OutcomeOf(i).run = "spawn_error" =>
                  StatusOf(sa.results[i]) = "failed" /\ Neutral(sa.results[i])

TimedOutWithoutStatus ==
    /\ sa.phase = "returned"
    /\ sa.ran = <<"pylint", "bandit">>
    /\ Len(sa.results) = 2
    /\ sa.env.outcome["pylint"].run = "timeout"
    /\ sa.env.outcome["bandit"].run = "spawn_error"
    /\ StatusOf(sa.results[1]) = "(no status)" /\ Neutral(sa.results[1])
    /\ StatusOf(sa.results[2]) = "(no status)" /\ Neutral(sa.results[2])
    /\ sa.results[1].summary.text \in TimedOutTexts
    /\ sa.results[2].summary.text \in FailedTexts

\* C7: analyze_code never raises to its caller, whatever the creation of
\* the temporary file, the write, the tools and the removal do: it returns
\* one result for each tool it ran.
StaticAnalyzeCodeNeverRaises ==
    sa.phase = "returned" => ~sa.raised /\ Len(sa.results) = Len(sa.ran)

AnalyzeCodeRaised ==
    /\ sa.phase = "returned"
    /\ sa.env.unlink = "missing"
    /\ sa.raised

\* C8: no temporary file that analyze_code created exists once the call
\* has ended.
TempFilesRemoved == tmp_files = {}

TempFileLeft ==
    /\ sa.phase = "returned"
    /\ sa.env.write = "error"
    /\ sa.created /\ sa.left
    /\ tmp_files # {}

Applicable(tool, language) ==
    \/ tool \in {"pylint", "bandit"} /\ language = "python"
    \/ tool = "eslint" /\ language \in {"javascript", "typescript"}

\* C9: analyze_code runs a tool only if it is enabled and applicable to the
\* language (pylint and bandit to Python, eslint to JavaScript and
\* TypeScript), and returns the empty list for a language with no
\* applicable tool.
OnlyEnabledApplicableToolsRun ==
    sa.phase = "returned" =>
        /\ \A i \in 1..Len(sa.ran) :
              tools_config[sa.ran[i]] /\ Applicable(sa.ran[i], sa.language)
        /\ \A i \in 1..Len(sa.results) : InSeq(sa.results[i].tool, sa.ran)
        /\ (\A tool \in Tools : ~Applicable(tool, sa.language)) =>
              sa.ran = <<>> /\ sa.results = <<>>

NoToolForLanguage ==
    /\ sa.phase = "returned"
    /\ sa.language = "java"
    /\ tools_config = [pylint |-> TRUE, eslint |-> TRUE, bandit |-> TRUE]
    /\ ~sa.raised
    /\ sa.ran = <<>>
    /\ sa.results = <<>>

SeverityWeight(severity) ==
    CASE severity = "critical" -> Points(3)
      [] severity = "high" -> Points(2)
      [] severity = "medium" -> Points(1)
      [] OTHER -> Half

RECURSIVE WeightSum(_, _)
WeightSum(issues, i) ==
    IF i > Len(issues) THEN 0 ELSE SeverityWeight(issues[i].severity) + WeightSum(issues, i + 1)

\* C10: the score of a tool run that completed is max(0, 10.0 minus the sum
\* of the weights of its issues' severities), critical 3, high 2, medium 1,
\* low 0.5, for every tool, for JSON output and for text output.
ScoreIsSeverityWeighted ==
    sa.phase = "returned" =>
        \A i \in 1..Len(sa.results) :
            sa.results[i].summary.text \in FoundTexts =>
                sa.results[i].score = Max(0, Points(10) - WeightSum(sa.results[i].issues, 1))

TextIssueUnscored ==
    /\ sa.phase = "returned"
    /\ sa.ran = <<"pylint">>
    /\ sa.env.outcome["pylint"].stdout = TextStdout(<<<<"f.py", "3", "error", "msg">>>>)
    /\ Len(sa.results) = 1
    /\ Len(sa.results[1].issues) = 1
    /\ sa.results[1].issues[1].severity = "high"
    /\ sa.results[1].score = Points(10)

(***************************************************************************)
(* Properties of a review (Spec).                                          *)
(***************************************************************************)
\* C3: a provider response that does not fit the schema is recovered inside
\* the provider chain, so what the engine returns always converts, and
\* every review that asked for the AI analysis aggregates an AI result: the
\* response carries it, names ai_engine among the tools used and takes the
\* AI share of the overall score from it.
ReviewAggregatesAIResult ==
    review.phase = "returned" /\ ~review.raised /\ review.request.include_ai_analysis =>
        /\ ConvertAIAnalysisOk(review.ai_data)
        /\ review.response[1].ai_analysis = <<ConvertAIAnalysis(review.ai_data)>>
        /\ InSeq("ai_engine", review.response[1].tools_used)

ReviewDropsAIResult ==
    /\ review.phase = "returned"
    /\ ~review.raised
    /\ review.request.include_ai_analysis
    /\ review.ai_calls = <<"anthropic">>
    /\ review.ai_data = JObj(<< <<"score", JNum(11)>> >>)
    /\ review.response[1].ai_analysis = <<>>
    /\ ~InSeq("ai_engine", review.response[1].tools_used)

(***************************************************************************)
(* Properties of the tool scores (SpecTool).                               *)
(***************************************************************************)
InRange(score) == 0 <= score /\ score <= Points(10)

ReviewDone == review.phase = "returned" /\ ~review.raised

RawIssues(ai_data) == Get(ai_data, "issues", JArr(<<>>))
RawType(issue_data) == Get(issue_data, "type", JStr("style_violation"))
RawSeverity(issue_data) == Get(issue_data, "severity", JStr("medium"))

\* the AI engine returned an object whose fields other than the score and
\* the issues fit AIAnalysisResult
OtherFieldsFit(ai_data) ==
    /\ ai_data.t = "obj"
    /\ AllItems(Iterate(Get(ai_data, "suggestions", JArr(<<>>))), ConvertAISuggestionOk)
    /\ AllItems(Iterate(Get(ai_data, "security_concerns", JArr(<<>>))), ConvertSecurityConcernOk)
    /\ AllItems(Iterate(Get(ai_data, "performance_notes", JArr(<<>>))), ConvertPerformanceNoteOk)
    /\ IsScore(Get(ai_data, "readability_score", JNum(5)))
    /\ IsScore(Get(ai_data, "maintainability_score", JNum(5)))
    /\ Get(ai_data, "summary", JStr("")).t = "str"

\* the AI engine returned an object that fits AIAnalysisResult but for the
\* categories and severities of its issues, which are strings of any kind
NamesIssues(ai_data) ==
    /\ OtherFieldsFit(ai_data)
    /\ IsScore(Get(ai_data, "score", JNum(5)))
    /\ RawIssues(ai_data).t = "arr"
    /\ \A i \in 1..Len(RawIssues(ai_data).items) :
          /\ RawIssues(ai_data).items[i].t = "obj"
          /\ RawType(RawIssues(ai_data).items[i]).t = "str"
          /\ RawSeverity(RawIssues(ai_data).items[i]).t = "str"
          /\ IsOptionalInt(Get(RawIssues(ai_data).items[i], "line", None))
          /\ Get(RawIssues(ai_data).items[i], "message", JStr("")).t = "str"

UnifiedType(raw) == IF raw.s \in IssueType THEN raw.s ELSE "style_violation"
UnifiedSeverity(raw) == IF raw.s \in SeverityLevel THEN raw.s ELSE "medium"

\* C12: the normalization is total: every issue the review aggregates, of a
\* static tool or of the AI engine, has a category and a severity of the
\* unified enums, and every issue the AI engine names is aggregated, an
\* unknown category as style_violation and an unknown severity as medium.
NormalizationIsTotal ==
    ReviewDone =>
        /\ \A r \in 1..Len(review.static_results) :
              \A i \in 1..Len(review.static_results[r].issues) :
                 /\ review.static_results[r].issues[i].type \in IssueType
                 /\ review.static_results[r].issues[i].severity \in SeverityLevel
        /\ (review.request.include_ai_analysis /\ NamesIssues(review.ai_data)) =>
              /\ review.response[1].ai_analysis # <<>>
              /\ Len(review.response[1].ai_analysis[1].issues)
                    = Len(RawIssues(review.ai_data).items)
              /\ \A i \in 1..Len(RawIssues(review.ai_data).items) :
                    /\ review.response[1].ai_analysis[1].issues[i].type
                          = UnifiedType(RawType(RawIssues(review.ai_data).items[i]))
                    /\ review.response[1].ai_analysis[1].issues[i].severity
                          = UnifiedSeverity(RawSeverity(RawIssues(review.ai_data).items[i]))

UnknownCategoryDropsAIResult ==
    /\ ReviewDone
    /\ review.request.include_ai_analysis
    /\ NamesIssues(review.ai_data)
    /\ Len(RawIssues(review.ai_data).items) = 1
    /\ RawType(RawIssues(review.ai_data).items[1]) = JStr("bogus")
    /\ review.response[1].ai_analysis = <<>>

\* the overall score as the spec writes it, in hundredths
WeightedOverall(static_scores, ai_part) ==
    IF static_scores = <<>>
    THEN Round2(60 * Points(5) + 40 * ai_part, 100)
    ELSE Round2(60 * Sum(static_scores, 1) + 40 * ai_part * Len(static_scores),
                100 * Len(static_scores))

AIPart(response) ==
    IF response.ai_analysis = <<>> THEN Points(5) ELSE response.ai_analysis[1].score

\* C13: the overall score of a review is 0.6 * the mean of the static
\* scores (5.0 when there is none) + 0.4 * the AI score (5.0 when there is
\* no AI result), rounded to 2 decimals.
OverallScoreIsWeighted ==
    ReviewDone =>
        review.response[1].overall_score
            = WeightedOverall(ScoresOf(review.static_results), AIPart(review.response[1]))

ZeroAIScoreCountsAsFive ==
    /\ ReviewDone
    /\ review.static_results = <<>>
    /\ review.response[1].ai_analysis # <<>>
    /\ review.response[1].ai_analysis[1].score = 0
    /\ review.response[1].overall_score = Points(5)

\* the AI engine returned an object that fits AIAnalysisResult but for its
\* score, a number outside [0, 10]
ScoreOutOfRange(ai_data) ==
    /\ OtherFieldsFit(ai_data)
    /\ AllItems(Iterate(RawIssues(ai_data)), ConvertAIIssueOk)
    /\ Get(ai_data, "score", JNum(5)).t = "num"
    /\ ~IsScore(Get(ai_data, "score", JNum(5)))

Clamped(n) == IF n < 0 THEN 0 ELSE IF n > 10 THEN Points(10) ELSE Points(n)

\* C14: an AI score outside [0, 10] is clamped into the range and used
\* together with the issues of the AI result, which is neither failed nor
\* discarded; the overall score of every review is within [0, 10].
OutOfRangeScoreIsClamped ==
    ReviewDone =>
        /\ InRange(review.response[1].overall_score)
        /\ (review.request.include_ai_analysis /\ ScoreOutOfRange(review.ai_data)) =>
              /\ review.response[1].ai_analysis # <<>>
              /\ review.response[1].ai_analysis[1].score
                    = Clamped(Get(review.ai_data, "score", JNum(5)).n)
              /\ Len(review.response[1].ai_analysis[1].issues)
                    = Len(RawIssues(review.ai_data).items)
              /\ review.response[1].total_issues
                    >= Len(RawIssues(review.ai_data).items)

OutOfRangeScoreDiscardsAIResult ==
    /\ ReviewDone
    /\ review.request.include_ai_analysis
    /\ ScoreOutOfRange(review.ai_data)
    /\ Get(review.ai_data, "score", JNum(5)).n = -1
    /\ Len(RawIssues(review.ai_data).items) = 1
    /\ review.response[1].ai_analysis = <<>>
    /\ review.response[1].total_issues = 0
    /\ review.response[1].overall_score = Points(5)

\* the number of issues of the static results before the r-th
RECURSIVE IssuesBefore(_, _)
IssuesBefore(static_results, r) ==
    IF r <= 1 THEN 0
    ELSE IssuesBefore(static_results, r - 1) + Len(static_results[r - 1].issues)

AIIssuesOf(response) ==
    IF response.ai_analysis = <<>> THEN <<>> ELSE response.ai_analysis[1].issues

\* C15: the aggregated issue list is the issues of the static results, in
\* the order of the results, followed by the issues of the AI result: each
\* issue is at its place with its tool, none is merged or dropped, the
\* length is the sum of the lengths, and total_issues is that length.
IssuesAreConcatenated ==
    ReviewDone =>
        /\ Len(review.all_issues)
              = IssuesBefore(review.static_results, Len(review.static_results) + 1)
                    + Len(AIIssuesOf(review.response[1]))
        /\ review.response[1].total_issues = Len(review.all_issues)
        /\ \A r \in 1..Len(review.static_results) :
              \A i \in 1..Len(review.static_results[r].issues) :
                 /\ review.all_issues[IssuesBefore(review.static_results, r) + i]
                       = review.static_results[r].issues[i]
                 /\ review.all_issues[IssuesBefore(review.static_results, r) + i].tool
                       = review.static_results[r].tool
        /\ \A i \in 1..Len(AIIssuesOf(review.response[1])) :
              /\ review.all_issues[IssuesBefore(review.static_results,
                                                Len(review.static_results) + 1) + i]
                    = AIIssuesOf(review.response[1])[i]
              /\ AIIssuesOf(review.response[1])[i].tool = "ai_engine"

IssuesOfThreeSources ==
    /\ ReviewDone
    /\ Len(review.static_results) = 2
    /\ Len(review.static_results[1].issues) = 1
    /\ Len(review.static_results[2].issues) = 1
    /\ Len(AIIssuesOf(review.response[1])) = 1
    /\ Len(review.all_issues) = 3
    /\ review.all_issues[1].tool = "pylint"
    /\ review.all_issues[2].tool = "bandit"
    /\ review.all_issues[3].tool = "ai_engine"

\* C16: the counts by severity (critical, high, medium, low) sum to the
\* length of the aggregated issue list, and the response's critical_issues
\* is the critical count.
SeverityCountsSumToTotal ==
    ReviewDone =>
        /\ DOMAIN review.issue_counts = {"critical", "high", "medium", "low"}
        /\ review.issue_counts["critical"] + review.issue_counts["high"]
              + review.issue_counts["medium"] + review.issue_counts["low"]
              = Len(review.all_issues)
        /\ \A severity \in DOMAIN review.issue_counts :
              review.issue_counts[severity]
                  = Cardinality({i \in 1..Len(review.all_issues) :
                                    review.all_issues[i].severity = severity})
        /\ review.response[1].critical_issues = review.issue_counts["critical"]

IssuesOfTwoSeverities ==
    /\ ReviewDone
    /\ Len(review.all_issues) = 3
    /\ review.issue_counts["critical"] = 2
    /\ review.issue_counts["high"] = 1
    /\ review.response[1].critical_issues = 2

SuggestionsOf(response) ==
    IF response.ai_analysis = <<>> THEN <<>> ELSE response.ai_analysis[1].suggestions

CriticalLine(issues) ==
    IF \E i \in 1..Len(issues) : issues[i].severity = "critical"
    THEN <<[text |-> "Address N critical issues immediately",
            n |-> Cardinality({i \in 1..Len(issues) : issues[i].severity = "critical"})]>>
    ELSE <<>>

SecurityLine(issues) ==
    IF \E i \in 1..Len(issues) : issues[i].type = "security_vulnerability"
    THEN <<[text |-> "Review and fix N security vulnerabilities",
            n |-> Cardinality({i \in 1..Len(issues) :
                                  issues[i].type = "security_vulnerability"})]>>
    ELSE <<>>

SuggestionsLine(suggestions) ==
    IF suggestions # <<>>
    THEN <<[text |-> "Implement N improvement suggestions", n |-> Len(suggestions)]>>
    ELSE <<>>

\* the recommendations before the cut: the critical line, the security
\* line, the lines of the focus areas in the order of the request, the
\* suggestions line
Ordered(r) ==
    CriticalLine(r.all_issues) \o SecurityLine(r.all_issues)
        \o FocusRecommendations(r.request.focus_areas, 1)
        \o SuggestionsLine(SuggestionsOf(r.response[1]))

\* C17: a review has at most 5 recommendations, and they are the first
\* min(5, n) of the n lines in the order critical, security, focus areas in
\* request order, suggestions.
RecommendationsAreFirstFive ==
    ReviewDone =>
        /\ Len(review.response[1].recommendations) <= 5
        /\ Len(review.response[1].recommendations)
              = (IF Len(Ordered(review)) < 5 THEN Len(Ordered(review)) ELSE 5)
        /\ \A i \in 1..Len(review.response[1].recommendations) :
              review.response[1].recommendations[i] = Ordered(review)[i]

SixthRecommendationCut ==
    /\ ReviewDone
    /\ Len(Ordered(review)) = 6
    /\ Len(review.response[1].recommendations) = 5
    /\ review.response[1].recommendations[1].text = "Address N critical issues immediately"
    /\ review.response[1].recommendations[2].text = "Review and fix N security vulnerabilities"
    /\ review.response[1].recommendations[3].text = "Conduct thorough security review"
    /\ review.response[1].recommendations[4].text = "Consider performance optimizations"
    /\ review.response[1].recommendations[5].text
          = "Improve code readability and documentation"

Recognized(focus_areas) == {i \in 1..Len(focus_areas) : focus_areas[i] \in valid_areas}

\* C18: every requested focus area of the recognized set (security,
\* performance, readability, maintainability, style, documentation)
\* contributes a recommendation, between the critical and security lines
\* and the suggestions line, up to the cap of 5.
EveryFocusAreaContributes ==
    ReviewDone =>
        Len(review.response[1].recommendations)
            = (IF Len(CriticalLine(review.all_issues)) + Len(SecurityLine(review.all_issues))
                     + Cardinality(Recognized(review.request.focus_areas))
                     + Len(SuggestionsLine(SuggestionsOf(review.response[1]))) < 5
               THEN Len(CriticalLine(review.all_issues)) + Len(SecurityLine(review.all_issues))
                        + Cardinality(Recognized(review.request.focus_areas))
                        + Len(SuggestionsLine(SuggestionsOf(review.response[1])))
               ELSE 5)

MaintainabilityContributesNothing ==
    /\ ReviewDone
    /\ review.request.focus_areas = <<"readability", "maintainability">>
    /\ review.all_issues = <<>>
    /\ SuggestionsOf(review.response[1]) = <<>>
    /\ review.response[1].recommendations
          = <<[text |-> "Improve code readability and documentation", n |-> 0]>>

\* C19: a request that names a focus area outside the recognized set is
\* rejected with a validation error before any analyzer runs: no result is
\* produced and none is stored.
UnknownFocusAreaRejected ==
    (review.phase = "returned" /\ ~ValidateFocusAreas(review.request.focus_areas)) =>
        /\ review.raised
        /\ review.response = <<>>
        /\ review.static_results = <<>>
        /\ review.ai_calls = <<>>

UnknownFocusAreaReviewed ==
    /\ ReviewDone
    /\ review.request.focus_areas = <<"security", "speed">>
    /\ review.static_results # <<>>
    /\ review.ai_calls # <<>>
    /\ review.response # <<>>
    /\ review_history # <<>>
    /\ review_history[Len(review_history)].review_id = review.response[1].review_id

(***************************************************************************)
(* Properties of batch_review (SpecBatch).                                 *)
(***************************************************************************)
\* the i-th sample of the batch is one review_code reviews
Succeeds(i) ==
    /\ IndividualRequestOk(batch.request.files[i])
    /\ ValidateReviewRequest(IndividualRequest(batch.request, batch.request.files[i]))

Successful == {i \in 1..Len(batch.request.files) : Succeeds(i)}

\* the place of the i-th sample among the successful ones
Rank(i) == Cardinality({j \in Successful : j <= i})

\* the response of review_code to the i-th sample by itself, under the
\* review id it has in the batch
Alone(i) ==
    Respond(batch.response.reviews[Rank(i)].review_id,
            IndividualRequest(batch.request, batch.request.files[i]),
            StaticResultsOf(IF batch.request.include_static_analysis
                            THEN StaticAnalyzeCode(tools_config, batch.request.files[i].language,
                                                   batch.envs[i])
                            ELSE StaticSkipped),
            AIResultOf(IndividualRequest(batch.request, batch.request.files[i]),
                       IF batch.request.include_ai_analysis
                       THEN AnalyzeCode(providers, SanitizeCode(batch.request.files[i].code),
                                        batch.request.files[i].language,
                                        batch.calls[i][1], batch.calls[i][2])
                       ELSE AISkipped))

\* C20: in a batch every sample is attempted, in order, whatever happened
\* to the others; successful_reviews + failed_reviews = total_files; the
\* reviews are exactly the results of the successful samples, in request
\* order, each the result the sample has by itself.
BatchSamplesAreIndependent ==
    batch.phase = "returned" =>
        /\ batch.attempted = [i \in 1..Len(batch.request.files) |-> i]
        /\ batch.response.total_files = Len(batch.request.files)
        /\ batch.response.successful_reviews + batch.response.failed_reviews
              = batch.response.total_files
        /\ batch.response.successful_reviews = Cardinality(Successful)
        /\ Len(batch.response.reviews) = Cardinality(Successful)
        /\ \A i \in Successful : batch.response.reviews[Rank(i)] = Alone(i)
        /\ \A k \in 1..(Len(batch.response.reviews) - 1) :
              batch.response.reviews[k].review_id < batch.response.reviews[k + 1].review_id

BatchOfThreeWithEmptyCode ==
    /\ batch.phase = "returned"
    /\ Len(batch.request.files) = 3
    /\ batch.request.files[2].code = <<>>
    /\ Successful = {1, 3}
    /\ Len(batch.response.reviews) = 2
    /\ batch.response.successful_reviews = 2
    /\ batch.response.failed_reviews = 1
    /\ batch.attempted = <<1, 2, 3>>

\* C21: a batch of more than 50 files is answered with status 400 and the
\* detail "Batch size cannot exceed 50 files", and no file of it is
\* reviewed or stored.
OversizedBatchIsClientError ==
    [][(batch.phase = "idle" /\ batch'.phase # "idle"
            /\ Len(batch'.request.files) > BatchLimit) =>
          /\ batch'.http.status_code = 400
          /\ batch'.http.detail = "Batch size cannot exceed 50 files"
          /\ batch'.attempted = <<>>
          /\ review_history' = review_history]_vars

OversizedBatchIsServerError ==
    /\ batch.phase = "refused"
    /\ Len(batch.request.files) = BatchLimit + 1
    /\ batch.http.status_code = 500
    /\ batch.http.detail = "Batch review failed: E"
    /\ batch.http.cause = <<HTTPException(400, "Batch size cannot exceed 50 files")>>
    /\ batch.attempted = <<>>

(***************************************************************************)
(* Properties of the history                                               *)
(***************************************************************************)
\* C22: the history is a bounded first-in-first-out list of capacity 100:
\* it never holds more than 100 entries, and after n completed reviews it
\* holds the most recent min(n, 100) of them, in the order they completed,
\* the oldest ones having been evicted.
HistoryIsBoundedFIFO ==
    /\ Len(review_history) <= HistoryLimit
    /\ Len(review_history) =
           (IF Len(completed) < HistoryLimit THEN Len(completed) ELSE HistoryLimit)
    /\ \A i \in 1..Len(review_history) :
           review_history[i].review_id =
               completed[Len(completed) - Len(review_history) + i]

\* two reviews have been evicted from a full history
HistoryEvictedTwo ==
    /\ Len(completed) = HistoryLimit + 2
    /\ Len(review_history) = HistoryLimit
    /\ review_history[1].review_id = completed[3]
    /\ review_history[HistoryLimit].review_id = completed[HistoryLimit + 2]

\* C23: the history is appended only after the review has been finalized,
\* and the append and the eviction are one critical section: whatever the
\* interleaving of the review, batch, get_review and dashboard requests in
\* flight, at most one request is writing the history at a time, no
\* completed review is lost, and no reader sees more than 100 entries.
Writing(slot) == loop.tasks[slot].pc \in {"store", "appended"}

Stored ==
    IF \E slot \in 1..Len(loop.tasks) : loop.tasks[slot].pc = "appended"
    THEN SubSeq(review_history, 1, Len(review_history) - 1)
    ELSE review_history

StoreIsOneCriticalSection ==
    /\ \A s1, s2 \in 1..Len(loop.tasks) : Writing(s1) /\ Writing(s2) => s1 = s2
    /\ \A slot \in 1..Len(loop.tasks) :
           /\ Writing(slot) => loop.running = slot /\ loop.tasks[slot].arg = next_review
           /\ loop.tasks[slot].pc = "appended" =>
                  review_history[Len(review_history)].review_id = loop.tasks[slot].arg
    /\ Len(Stored) = (IF Len(completed) < HistoryLimit THEN Len(completed) ELSE HistoryLimit)
    /\ \A i \in 1..Len(Stored) :
           Stored[i].review_id = completed[Len(completed) - Len(Stored) + i]
    /\ rd.phase = "returned" => rd.observed <= HistoryLimit

\* a reader has seen the full history after an eviction, while a review of
\* another request has been appended and not yet truncated
ReadBetweenTwoWriters ==
    /\ rd.phase = "returned"
    /\ rd.observed = HistoryLimit
    /\ Len(completed) > HistoryLimit
    /\ Len(review_history) = HistoryLimit + 1
    /\ \E slot \in 1..Len(loop.tasks) : loop.tasks[slot].pc = "appended"

(***************************************************************************)
(* Properties of the error handling                                        *)
(***************************************************************************)
\* review_code had a valid request
ValidReviewReturned == review.phase = "returned" /\ ValidateReviewRequest(review.request)

\* C24: only a validation problem makes a review fail: for every valid
\* request, whatever the analyzers do (the tool runner raises, a tool times
\* out, the providers fail, the AI result is unusable), review_code returns
\* a response, in which a missing source counts with the neutral score 5.0
\* and adds no issue.
AnalyzerFailuresAreAbsorbed ==
    ValidReviewReturned =>
        /\ ~review.raised
        /\ review.response # <<>>
        /\ review.response[1].overall_score
               = WeightedOverall(ScoresOf(review.static_results), AIPart(review.response[1]))
        /\ review.static_results = <<>> =>
               review.all_issues = AIIssuesOf(review.response[1])
        /\ review.response[1].ai_analysis = <<>> =>
               review.all_issues = StaticIssues(review.static_results, 1)

\* the static analysis raised and the AI result has the score 0: the review
\* has the score 5.0, and not 0.6 * 5.0 + 0.4 * 0 = 3.0
StaticMissingWithZeroAIScore ==
    /\ ValidReviewReturned
    /\ review.static_raised
    /\ review.static_results = <<>>
    /\ review.response # <<>>
    /\ review.response[1].ai_analysis # <<>>
    /\ review.response[1].ai_analysis[1].score = 0
    /\ review.response[1].overall_score = Points(5)

\* every other valid review is a response with 5.0 for what is missing
OtherFailuresAreAbsorbed ==
    (ValidReviewReturned /\ ~(review.static_results = <<>> /\ AIPart(review.response[1]) = 0)) =>
        AnalyzerFailuresAreAbsorbed

\* C25: a non-zero exit code is no failure: only a process that could not
\* be spawned or that timed out gives the neutral failed or timed-out
\* result; every run whose process ended returns the issues found in its
\* output, whatever the exit code.
CompletedRunIsNotDegraded ==
    tr.phase = "returned" =>
        /\ tr.result.summary.text \in FoundTexts
        /\ tr.more.summary.text \in FoundTexts

\* a tool that exited with 1 after printing one finding more than a readable
\* output of one finding: the run is a failed one, without issues
CompletedRunDegraded ==
    /\ tr.phase = "returned"
    /\ tr.returncode = 1
    /\ tr.stdout.fmt = "json"
    /\ tr.result.summary.text \in FoundTexts
    /\ Len(tr.result.issues) = 1
    /\ tr.more.summary.text \in FailedTexts
    /\ Neutral(tr.more)

\* the exit code alone never degrades a run: the runs that are degraded
\* are so with the exit code 0 as well
DegradedWhateverTheExitCode ==
    tr.phase = "returned" =>
        /\ tr.result = RunTool(tr.tool, CompletedProcess(0, tr.stdout))
        /\ tr.more = RunTool(tr.tool, CompletedProcess(0, tr.more_stdout))

(***************************************************************************)
(* Properties of the aggregation over several reviews (SpecBatch).         *)
(***************************************************************************)
\* what the analyzers gave review_code for the i-th sample of the batch
StaticOf(i) ==
    StaticResultsOf(IF batch.request.include_static_analysis
                    THEN StaticAnalyzeCode(tools_config, batch.request.files[i].language,
                                           batch.envs[i])
                    ELSE StaticSkipped)

AIOf(i) ==
    AIResultOf(IndividualRequest(batch.request, batch.request.files[i]),
               IF batch.request.include_ai_analysis
               THEN AnalyzeCode(providers, SanitizeCode(batch.request.files[i].code),
                                batch.request.files[i].language,
                                batch.calls[i][1], batch.calls[i][2])
               ELSE AISkipped)

\* a response without the review id and the language of the request
Aggregated(response) ==
    [overall_score |-> response.overall_score,
     static_analysis |-> response.static_analysis,
     ai_analysis |-> response.ai_analysis,
     total_issues |-> response.total_issues,
     critical_issues |-> response.critical_issues,
     security_issues |-> response.security_issues,
     summary |-> response.summary,
     recommendations |-> response.recommendations,
     tools_used |-> response.tools_used]

MessageTypes(tool) ==
    IF tool = "pylint" THEN {"error", "fatal", "warning", "refactor", "convention"}
    ELSE {"error", "warning"}

\* a line of the shape file:line:type:message, the line an integer; a
\* line of bandit's report is an issue line by its marker
Shaped(tool, line) ==
    IF tool = "bandit" THEN BanditTextMatch(line)
    ELSE Len(line) >= 4 /\ IsIntText(line[2]) /\ line[3] \in MessageTypes(tool)

ShapedIssue(tool, line) ==
    CASE tool = "pylint" ->
            CodeIssue(MapPylintType(line[3]), MapPylintSeverity(line[3]), <<IntOf(line[2])>>,
                      SubSeq(line, 4, Len(line)), "pylint")
      [] tool = "eslint" ->
            CodeIssue(MapEslintType(JStr(line[3])), MapEslintSeverity(JStr(line[3])),
                      <<IntOf(line[2])>>, SubSeq(line, 4, Len(line)), "eslint")
      [] OTHER -> BanditTextIssue(line)

RECURSIVE ShapedIssues(_, _, _)
ShapedIssues(tool, lines, i) ==
    IF i > Len(lines) THEN <<>>
    ELSE (IF Shaped(tool, lines[i]) THEN <<ShapedIssue(tool, lines[i])>> ELSE <<>>)
             \o ShapedIssues(tool, lines, i + 1)

TextFallbackOf(tool, stdout, result) ==
    (stdout.fmt = "text" /\ LoadsStdout(stdout) = JSONDecodeError) =>
        /\ result.summary.text \in FoundTexts
        /\ result.issues = ShapedIssues(tool, stdout.lines, 1)

\* C27: when the output of a tool is not JSON, the text fallback gives one
\* issue for each line of the shape file:line:type:message, in the order of
\* the lines, with the category and severity the normalizer has for the
\* type; it drops every other line, among them the lines whose line number
\* is not an integer, and it never raises.
TextFallbackIssuePerShapedLine ==
    tr.phase = "returned" =>
        /\ TextFallbackOf(tr.tool, tr.stdout, tr.result)
        /\ TextFallbackOf(tr.tool, tr.more_stdout, tr.more)

\* pylint printed a fatal message and an error as text: the fallback gives
\* the error and drops the fatal message
FatalLineDropped ==
    /\ tr.phase = "returned"
    /\ tr.tool = "pylint"
    /\ tr.stdout = TextStdout(<<<<"f.py", "3", "fatal", "msg">>>>)
    /\ tr.result.summary.text \in FoundTexts
    /\ tr.result.issues = <<>>
    /\ tr.more_stdout.lines[2] = <<"f.py", "3", "error", "msg">>
    /\ Len(tr.more.issues) = 1
    /\ tr.more.issues[1].severity = "high"

\* for the lines with error, warning or refactor as their type, and for
\* eslint and bandit, the fallback is as C27 says
TextFallbackOfKeywordLines ==
    (/\ tr.phase = "returned"
     /\ \A i \in 1..Len(tr.more_stdout.lines) :
           tr.tool = "pylint" => tr.more_stdout.lines[i] # <<"f.py", "3", "fatal", "msg">>) =>
        TextFallbackIssuePerShapedLine

(***************************************************************************)
(* Properties of the validation (SpecHistory).                             *)
(***************************************************************************)
EmptyCode(request) == request.code = <<>>
WhitespaceOnly(request) ==
    request.code # <<>> /\ \A i \in 1..Len(request.code) : request.code[i] = " "
Oversized(request) == CodeSize(request.code, 1) > MaxFileSize

ToolsAndProvidersAreIndependent ==
    (ReviewDone /\ review.request.include_ai_analysis) =>
        /\ review.ai_started = 0
        /\ review.outcome = "timeout" =>
               review.static_results
                   = StaticResultsOf(IF review.request.include_static_analysis
                                     THEN StaticAnalyzeCode(tools_config, review.request.language,
                                                            review.env)
                                     ELSE StaticSkipped)

\* pylint and bandit ran until their timeouts, and only then the provider
\* was called, which timed out as well
ProviderCalledAfterTwoTimeouts ==
    /\ ReviewDone
    /\ review.request.include_static_analysis
    /\ review.request.include_ai_analysis
    /\ Len(review.static_results) = 2
    /\ \A i \in 1..2 : review.static_results[i].summary.text \in TimedOutTexts
    /\ review.outcome = "timeout"
    /\ review.ai_calls # <<>>
    /\ review.ai_started = 2 * ToolTimeout

(***************************************************************************)
(* Properties of get_review (SpecHistory).                                 *)
(***************************************************************************)
\* the ids of the last 100 reviews that completed
LastCompleted ==
    {completed[i] :
        i \in (IF Len(completed) > HistoryLimit THEN Len(completed) - HistoryLimit + 1 ELSE 1)
                  ..Len(completed)}

StoredAs(review_id) ==
    CHOOSE item \in {review_history[i] : i \in 1..Len(review_history)} :
        item.review_id = review_id

\* C30: after any sequence of reviews get_review(id) returns the stored
\* review of id if and only if that review is among the last 100 that
\* completed; for an id that was never stored or has been evicted the answer
\* is 404 "Review not found", not 500; get_review never changes the history.
GetReviewFindsLastHundred ==
    [][(rd.phase = "idle" /\ rd'.phase = "returned" /\ rd'.endpoint = "get_review") =>
          /\ review_history' = review_history
          /\ completed' = completed
          /\ rd'.review_id \in LastCompleted =>
                /\ rd'.http.status_code = 200
                /\ Len(rd'.body) = 1
                /\ rd'.body[1].review_id = rd'.review_id
                /\ rd'.body[1].language = StoredAs(rd'.review_id).language
                /\ rd'.body[1].overall_score = StoredAs(rd'.review_id).overall_score
                /\ rd'.body[1].total_issues = StoredAs(rd'.review_id).total_issues
                /\ rd'.body[1].summary = StoredAs(rd'.review_id).summary
          /\ rd'.review_id \notin LastCompleted =>
                /\ rd'.http.status_code = 404
                /\ rd'.http.detail = "Review not found"
                /\ rd'.body = <<>>]_vars

\* the review that was the oldest of a full history is asked for after one
\* more review has completed
EvictedReviewNotFound ==
    /\ rd.phase = "returned"
    /\ rd.endpoint = "get_review"
    /\ Len(completed) = HistoryLimit + 1
    /\ rd.review_id = completed[1]
    /\ rd.http.status_code = 404
    /\ rd.http.detail = "Review not found"
    /\ rd.observed = HistoryLimit

====
